---- MODULE Spec2Model ----
(***************************************************************************)
(* Model of the membrane-agent core of libertaria-sdk:                     *)
(*   - the anomaly alert store      (src/membrane-agent/src/anomaly_alerts.rs) *)
(*   - the IPC connection handler   (src/membrane-agent/src/event_listener.rs) *)
(*   - the policy enforcer          (src/membrane-agent/src/policy_enforcer.rs) *)
(*   - the oracle client            (src/membrane-agent/src/qvl_ffi.rs)        *)
(*   - the listener's start and the event loop of main                     *)
(* Each component has its own specification over the shared variables; the *)
(* variables of the other components stay at their initial value.          *)
(***************************************************************************)
EXTENDS Integers, Sequences, FiniteSets, TLC

VARIABLES
    \* ---- AnomalyAlertSystem ----
    alerts,       \* Vec<Alert> behind the Mutex, oldest first
    max_alerts,   \* configured capacity
    mutex,        \* holder of the Mutex guard, or Unlocked
    poisoned,     \* the Mutex is poisoned (a holder panicked)
    pc,           \* per caller thread: position in its current call
    cur,          \* per caller thread: the call's argument / local alert
    ret,          \* per caller thread: what its last call returned
    now,          \* the clock read by Utc::now()
    opsLeft,      \* calls that may still be started (bounds the run)
    emitted,      \* history: per caller, number of emit calls started
    returned,     \* history: per caller, number of emit calls that returned
    lin,          \* history: nodes pushed since creation / the last clear
    cleared,      \* history: clear() has run
    wasFull,      \* history: the store held max_alerts alerts since the last clear
    \* ---- Alert::from_anomaly on its own ----
    cls_in,       \* the anomaly handed to from_anomaly
    cls_out,      \* <<the alert it built>>, or <<>> before the call
    \* ---- handle_connection, the event queue and its consumer ----
    wire,         \* history: per connection, the frames the peer wrote
    stream,       \* per connection, the bytes the peer wrote before the stream ended
    ending,       \* per connection, how the stream ends: "eof" or "reset"
    pos,          \* per connection, bytes the handler has consumed
    hpc,          \* per connection, the handler's position in its loop
    hdr,          \* per connection, the header of the frame being handled
    payload,      \* per connection, the payload of the frame being handled
    pending,      \* per connection, the event about to be sent
    hres,         \* per connection, what handle_connection returned
    flog,         \* history: per connection, the frames consumed (start, stop, header)
    queue,        \* the mpsc channel's buffer
    rx_closed,    \* the Receiver is closed or dropped
    delivered,    \* history: what the consumer received, in order
    \* ---- PolicyEnforcer and QvlClient ----
    enf,          \* the enforcer: its client's ctx and its two thresholds
    pol_call,     \* the call in progress or last made, with what the oracle answered
    pol_ret,      \* what the call returned
    ffi_calls,    \* history: extern "C" calls made by the call
    sap_call,     \* per caller thread: its should_accept_packet call and its result
    sap_log,      \* history: <<oracle answer, decision>> of every call that returned
    \* ---- EventListener::start ----
    sock_path,    \* the socket path: no file, or the socket file of a listener
    lst,          \* per listener: its position in start()
    accept_errs,  \* history: failed accepts logged by the accept loop
    \* ---- the event loop of main ----
    main_pc       \* "recv", or "query" while should_accept_packet is running

storeVars == <<alerts, max_alerts, mutex, poisoned, pc, cur, ret, now, opsLeft,
               emitted, returned, lin, cleared, wasFull>>
clsVars == <<cls_in, cls_out>>
connVars == <<wire, stream, ending, pos, hpc, hdr, payload, pending, hres, flog,
              queue, rx_closed, delivered>>
polVars == <<enf, pol_call, pol_ret, ffi_calls, sap_call, sap_log>>
lstVars == <<sock_path, lst, accept_errs>>
mainVars == <<main_pc>>
vars == <<storeVars, clsVars, connVars, polVars, lstVars, mainVars>>

(***************************************************************************)
(* Bounds of the model                                                     *)
(***************************************************************************)
MaxCapacity == 2     \* capacities 0..MaxCapacity are tried
MaxOps == 3          \* calls started in one run
NumCallers == 2      \* concurrent caller threads

Callers == 1..NumCallers

(***************************************************************************)
(* f64 scores.  A score is modelled in hundredths (0.9 is 90); NaN is the  *)
(* one value that is unordered: every comparison with it is false.         *)
(***************************************************************************)
NaN == 9999

FGe(a, b) == a # NaN /\ b # NaN /\ a >= b
FLt(a, b) == a # NaN /\ b # NaN /\ a < b
FGt(a, b) == a # NaN /\ b # NaN /\ a > b

(***************************************************************************)
(* AlertPriority: the discriminants give the derived Ord                   *)
(***************************************************************************)
Critical == 0
Warning == 1
Info == 2
AlertPriority == {Critical, Warning, Info}

AnomalyReason == {"None", "NegativeCycle", "LowCoverage", "BpDivergence", "Unknown"}

CriticalScore == 90
WarningScore == 70

\* mutant of PriorityOfScore: the Critical threshold is exclusive (> for >=)
PriorityOfScoreExclusive(score) ==
    IF FGt(score, CriticalScore) THEN Critical
    ELSE IF FGe(score, WarningScore) THEN Warning
    ELSE Info

\* Alert::from_anomaly: the priority chosen for a score
PriorityOfScore(score) ==
    IF FGe(score, CriticalScore) THEN Critical
    ELSE IF FGe(score, WarningScore) THEN Warning
    ELSE Info

\* Alert::from_anomaly: the alert built from an anomaly at clock reading ts
from_anomaly(anomaly, ts) ==
    [timestamp |-> ts,
     priority  |-> PriorityOfScore(anomaly.score),
     node      |-> anomaly.node,
     score     |-> anomaly.score,
     reason    |-> anomaly.reason]


(***************************************************************************)
(* The store's pure parts                                                  *)
(***************************************************************************)
\* mutant of remove_first: the newest element is removed (pop) instead of the oldest
remove_last(v) == SubSeq(v, 1, Len(v) - 1)

\* Vec::remove(0) on a non-empty Vec: the first element goes, the rest shift down
remove_first(v) == Tail(v)

\* mutant of get_critical_alerts: the filter keeps the Warning alerts
get_warning_alerts(v) == SelectSeq(v, LAMBDA a : a.priority = Warning)

\* get_critical_alerts: filter(|a| a.priority == AlertPriority::Critical)
get_critical_alerts(v) == SelectSeq(v, LAMBDA a : a.priority = Critical)

\* mutant of get_alerts_above: the comparison is strict (< for <=)
get_alerts_strictly_above(v, min_priority) == SelectSeq(v, LAMBDA a : a.priority < min_priority)

\* get_alerts_above: filter(|a| a.priority <= min_priority), derived Ord
get_alerts_above(v, min_priority) == SelectSeq(v, LAMBDA a : a.priority <= min_priority)

\* mutant of count_by_priority: at-or-above is counted (<= for ==)
count_at_or_above(v, priority) == Len(SelectSeq(v, LAMBDA a : a.priority <= priority))

\* count_by_priority: filter(|a| a.priority == priority).count()
count_by_priority(v, priority) == Len(SelectSeq(v, LAMBDA a : a.priority = priority))

\* total_count: alerts.len()
total_count(v) == Len(v)

\* The read calls of the store and their arguments
ReadCalls ==
    {[op |-> "total_count", arg |-> Critical], [op |-> "get_critical_alerts", arg |-> Critical]}
    \cup {[op |-> "count_by_priority", arg |-> p] : p \in AlertPriority}
    \cup {[op |-> "get_alerts_above", arg |-> p] : p \in AlertPriority}

\* What a read call returns on the locked Vec v
ReadResult(call, v) ==
    CASE call.op = "total_count" -> total_count(v)
      [] call.op = "get_critical_alerts" -> get_critical_alerts(v)
      [] call.op = "count_by_priority" -> count_by_priority(v, call.arg)
      [] call.op = "get_alerts_above" -> get_alerts_above(v, call.arg)

(***************************************************************************)
(* Inputs of emit: the anomalies of the unit tests (0.95, 0.75, 0.55)      *)
(***************************************************************************)
EmitInputs ==
    {[score |-> 95, reason |-> "NegativeCycle"],
     [score |-> 75, reason |-> "LowCoverage"],
     [score |-> 55, reason |-> "BpDivergence"]}

\* The node of caller c's k-th emit (k from 0): every emit call has its own node
NodeOf(c, k) == k * NumCallers + c

Unlocked == 0
NoCall == [op |-> "none", arg |-> 0]
NoRet == [op |-> "none", arg |-> 0, val |-> 0, snap |-> <<>>, full |-> FALSE]

(***************************************************************************)
(* The Mutex                                                               *)
(***************************************************************************)
\* mutant of MutexFree: lock never waits for the holder (no mutual exclusion)
MutexNeverBlocks == TRUE

\* Mutex::lock blocks while another thread holds the guard
MutexFree == mutex = Unlocked

\* self.alerts.lock().unwrap(): take the guard and go to `next`; on a poisoned
\* Mutex unwrap panics (the guard is dropped again, the thread dies)
LockUnwrap(c, next) ==
    /\ MutexFree
    /\ IF poisoned
       THEN /\ pc' = [pc EXCEPT ![c] = "panicked"]
            /\ mutex' = Unlocked
       ELSE /\ pc' = [pc EXCEPT ![c] = next]
            /\ mutex' = c

(***************************************************************************)
(* AnomalyAlertSystem::with_capacity / new                                 *)
(***************************************************************************)
StoreFresh(capacity) ==
    /\ alerts = <<>>
    /\ max_alerts = capacity
    /\ mutex = Unlocked
    /\ poisoned = FALSE
    /\ pc = [c \in Callers |-> "idle"]
    /\ cur = [c \in Callers |-> NoCall]
    /\ ret = [c \in Callers |-> NoRet]
    /\ now = 0
    /\ opsLeft = MaxOps
    /\ emitted = [c \in Callers |-> 0]
    /\ returned = [c \in Callers |-> 0]
    /\ lin = <<>>
    /\ cleared = FALSE
    /\ wasFull = (0 >= capacity)

ClsIdle ==
    /\ cls_in = [node |-> 0, score |-> 0, reason |-> "None"]
    /\ cls_out = <<>>

\* connections the listener can hold at once
NumConns == 2
Conns == 1..NumConns

NoHeader == [magic |-> 0, event_type |-> 0, flags |-> 0, length |-> 0]
NoEvent == [kind |-> "none"]

\* no connection has been accepted; the channel of EventListener::new is empty
ConnIdle ==
    /\ wire = [k \in Conns |-> <<>>]
    /\ stream = [k \in Conns |-> <<>>]
    /\ ending = [k \in Conns |-> "eof"]
    /\ pos = [k \in Conns |-> 0]
    /\ hpc = [k \in Conns |-> "unconnected"]
    /\ hdr = [k \in Conns |-> NoHeader]
    /\ payload = [k \in Conns |-> <<>>]
    /\ pending = [k \in Conns |-> NoEvent]
    /\ hres = [k \in Conns |-> "running"]
    /\ flog = [k \in Conns |-> <<>>]
    /\ queue = <<>>
    /\ rx_closed = FALSE
    /\ delivered = <<>>

\* listeners that may be started on the socket path
NumListeners == 3
Listeners == 1..NumListeners

NoFile == 0
NoPolCall == [op |-> "none", arg |-> <<>>, said |-> <<>>]
NoPolRet == [kind |-> "none"]
NoSap == [pc |-> "idle", said |-> <<>>, ret |-> "none"]

\* PolicyEnforcer::new on a client whose qvl_init succeeded; no call made
PolIdle ==
    /\ enf = [ctx |-> "valid", drop_threshold |-> 10, untrusted_threshold |-> 50]
    /\ pol_call = NoPolCall
    /\ pol_ret = NoPolRet
    /\ ffi_calls = 0
    /\ sap_call = [c \in Callers |-> NoSap]
    /\ sap_log = {}

\* no listener has been started and the socket path does not exist
LstIdle ==
    /\ sock_path = NoFile
    /\ lst = [l \in Listeners |-> "new"]
    /\ accept_errs = 0

\* the event loop waits in recv()
MainIdle == main_pc = "recv"

OthersIdle == PolIdle /\ LstIdle /\ MainIdle

InitStore ==
    /\ \E capacity \in 0..MaxCapacity : StoreFresh(capacity)
    /\ ClsIdle /\ ConnIdle /\ OthersIdle

(***************************************************************************)
(* emit                                                                    *)
(***************************************************************************)
\* emit, lines 76-98: build the alert (timestamp = Utc::now()) and log it
EmitCreate(c) ==
    /\ pc[c] = "idle"
    /\ opsLeft > 0
    /\ \E a \in EmitInputs :
         cur' = [cur EXCEPT ![c] =
                   from_anomaly([node |-> NodeOf(c, emitted[c]), score |-> a.score,
                                 reason |-> a.reason], now)]
    /\ now' = now + 1
    /\ pc' = [pc EXCEPT ![c] = "emit_lock"]
    /\ ret' = [ret EXCEPT ![c] = NoRet]
    /\ opsLeft' = opsLeft - 1
    /\ emitted' = [emitted EXCEPT ![c] = @ + 1]
    /\ UNCHANGED <<alerts, max_alerts, mutex, poisoned, returned, lin, cleared, wasFull>>
    /\ UNCHANGED <<clsVars, connVars, polVars, lstVars, mainVars>>

\* emit, line 101: let mut alerts = self.alerts.lock().unwrap()
EmitLock(c) ==
    /\ pc[c] = "emit_lock"
    /\ LockUnwrap(c, "emit_check")
    /\ UNCHANGED <<alerts, max_alerts, poisoned, cur, ret, now, opsLeft,
                   emitted, returned, lin, cleared, wasFull>>
    /\ UNCHANGED <<clsVars, connVars, polVars, lstVars, mainVars>>

\* mutant of AtCapacity: the capacity test off by one (> for >=)
AtCapacityOffByOne == Len(alerts) > max_alerts

\* emit, line 104: alerts.len() >= self.max_alerts
AtCapacity == Len(alerts) >= max_alerts

\* emit, lines 104-106: if alerts.len() >= self.max_alerts { alerts.remove(0); }
\* Vec::remove panics on an empty Vec; the guard is dropped while panicking,
\* which poisons the Mutex
EmitEvict(c) ==
    /\ pc[c] = "emit_check"
    /\ IF AtCapacity
       THEN IF Len(alerts) = 0
            THEN /\ pc' = [pc EXCEPT ![c] = "panicked"]
                 /\ poisoned' = TRUE
                 /\ mutex' = Unlocked
                 /\ UNCHANGED alerts
            ELSE /\ alerts' = remove_first(alerts)
                 /\ pc' = [pc EXCEPT ![c] = "emit_push"]
                 /\ UNCHANGED <<poisoned, mutex>>
       ELSE /\ pc' = [pc EXCEPT ![c] = "emit_push"]
            /\ UNCHANGED <<alerts, poisoned, mutex>>
    /\ UNCHANGED <<max_alerts, cur, ret, now, opsLeft, emitted, returned, lin,
                   cleared, wasFull>>
    /\ UNCHANGED <<clsVars, connVars, polVars, lstVars, mainVars>>

\* mutant of EmitPush: the push also re-stamps the alerts already stored
EmitPushRestamps(c) ==
    /\ pc[c] = "emit_push"
    /\ alerts' = Append([i \in 1..Len(alerts) |->
                           [alerts[i] EXCEPT !.timestamp = cur[c].timestamp]], cur[c])
    /\ mutex' = Unlocked
    /\ pc' = [pc EXCEPT ![c] = "idle"]
    /\ cur' = [cur EXCEPT ![c] = NoCall]
    /\ returned' = [returned EXCEPT ![c] = @ + 1]
    /\ lin' = Append(lin, cur[c].node)
    /\ wasFull' = (wasFull \/ Len(alerts') >= max_alerts)
    /\ UNCHANGED <<max_alerts, poisoned, ret, now, opsLeft, emitted, cleared>>
    /\ UNCHANGED <<clsVars, connVars, polVars, lstVars, mainVars>>

\* emit, lines 108-109: alerts.push(alert); the guard is dropped on return
EmitPush(c) ==
    /\ pc[c] = "emit_push"
    /\ alerts' = Append(alerts, cur[c])
    /\ mutex' = Unlocked
    /\ pc' = [pc EXCEPT ![c] = "idle"]
    /\ cur' = [cur EXCEPT ![c] = NoCall]
    /\ returned' = [returned EXCEPT ![c] = @ + 1]
    /\ lin' = Append(lin, cur[c].node)
    /\ wasFull' = (wasFull \/ Len(alerts') >= max_alerts)
    /\ UNCHANGED <<max_alerts, poisoned, ret, now, opsLeft, emitted, cleared>>
    /\ UNCHANGED <<clsVars, connVars, polVars, lstVars, mainVars>>

(***************************************************************************)
(* The read calls: get_critical_alerts, get_alerts_above,                  *)
(* count_by_priority, total_count                                          *)
(***************************************************************************)
\* first line of each read call: let alerts = self.alerts.lock().unwrap()
ReadLock(c) ==
    /\ pc[c] = "idle"
    /\ opsLeft > 0
    /\ \E call \in ReadCalls : cur' = [cur EXCEPT ![c] = call]
    /\ LockUnwrap(c, "read_body")
    /\ ret' = [ret EXCEPT ![c] = NoRet]
    /\ opsLeft' = opsLeft - 1
    /\ UNCHANGED <<alerts, max_alerts, poisoned, now, emitted, returned, lin,
                   cleared, wasFull>>
    /\ UNCHANGED <<clsVars, connVars, polVars, lstVars, mainVars>>

\* mutant of ReadBody: get_critical_alerts takes the alerts it returns out of
\* the store
ReadBodyTakes(c) ==
    /\ pc[c] = "read_body"
    /\ ret' = [ret EXCEPT ![c] =
                 [op |-> cur[c].op, arg |-> cur[c].arg, val |-> ReadResult(cur[c], alerts),
                  snap |-> alerts, full |-> wasFull]]
    /\ alerts' = IF cur[c].op = "get_critical_alerts"
                 THEN SelectSeq(alerts, LAMBDA a : a.priority # Critical)
                 ELSE alerts
    /\ mutex' = Unlocked
    /\ pc' = [pc EXCEPT ![c] = "idle"]
    /\ cur' = [cur EXCEPT ![c] = NoCall]
    /\ UNCHANGED <<max_alerts, poisoned, now, opsLeft, emitted, returned,
                   lin, cleared, wasFull>>
    /\ UNCHANGED <<clsVars, connVars, polVars, lstVars, mainVars>>

\* the body of the read call on the locked Vec; the guard is dropped on return
ReadBody(c) ==
    /\ pc[c] = "read_body"
    /\ ret' = [ret EXCEPT ![c] =
                 [op |-> cur[c].op, arg |-> cur[c].arg, val |-> ReadResult(cur[c], alerts),
                  snap |-> alerts, full |-> wasFull]]
    /\ mutex' = Unlocked
    /\ pc' = [pc EXCEPT ![c] = "idle"]
    /\ cur' = [cur EXCEPT ![c] = NoCall]
    /\ UNCHANGED <<alerts, max_alerts, poisoned, now, opsLeft, emitted, returned,
                   lin, cleared, wasFull>>
    /\ UNCHANGED <<clsVars, connVars, polVars, lstVars, mainVars>>

(***************************************************************************)
(* clear                                                                   *)
(***************************************************************************)
\* mutant of clear_vec: only the oldest alert is dropped
clear_oldest_only(v) == IF v = <<>> THEN v ELSE Tail(v)

\* Vec::clear
clear_vec(v) == <<>>

\* clear, line 139: let mut alerts = self.alerts.lock().unwrap()
ClearLock(c) ==
    /\ pc[c] = "idle"
    /\ opsLeft > 0
    /\ cur' = [cur EXCEPT ![c] = [op |-> "clear", arg |-> 0]]
    /\ LockUnwrap(c, "clear_body")
    /\ ret' = [ret EXCEPT ![c] = NoRet]
    /\ opsLeft' = opsLeft - 1
    /\ UNCHANGED <<alerts, max_alerts, poisoned, now, emitted, returned, lin,
                   cleared, wasFull>>
    /\ UNCHANGED <<clsVars, connVars, polVars, lstVars, mainVars>>

\* clear, line 140: alerts.clear(); the guard is dropped on return
ClearBody(c) ==
    /\ pc[c] = "clear_body"
    /\ alerts' = clear_vec(alerts)
    /\ mutex' = Unlocked
    /\ pc' = [pc EXCEPT ![c] = "idle"]
    /\ cur' = [cur EXCEPT ![c] = NoCall]
    /\ ret' = [ret EXCEPT ![c] =
                 [op |-> "clear", arg |-> 0, val |-> 0, snap |-> alerts', full |-> FALSE]]
    /\ lin' = <<>>
    /\ cleared' = TRUE
    /\ wasFull' = (Len(alerts') >= max_alerts)
    /\ UNCHANGED <<max_alerts, poisoned, now, opsLeft, emitted, returned>>
    /\ UNCHANGED <<clsVars, connVars, polVars, lstVars, mainVars>>

NextStore ==
    \E c \in Callers :
        \/ EmitCreate(c)
        \/ EmitLock(c)
        \/ EmitEvict(c)
        \/ EmitPush(c)
        \/ ReadLock(c)
        \/ ReadBody(c)
        \/ ClearLock(c)
        \/ ClearBody(c)

SpecStore == InitStore /\ [][NextStore]_vars


(***************************************************************************)
(* Alert::from_anomaly applied to one anomaly at a time, over a range of   *)
(* scores that includes both thresholds, values outside 0.0..1.0 and NaN   *)
(***************************************************************************)
ScoreMargin == 5     \* scores from -0.05 to 1.05 are tried

ClsScores == ((0 - ScoreMargin)..(100 + ScoreMargin)) \cup {NaN}

ClsInputs == {[node |-> 1, score |-> s, reason |-> "NegativeCycle"] : s \in ClsScores}

InitClassify ==
    /\ StoreFresh(0)
    /\ cls_in \in ClsInputs
    /\ cls_out = <<>>
    /\ ConnIdle
    /\ OthersIdle

\* let alert = Alert::from_anomaly(anomaly)
ClsFromAnomaly ==
    /\ cls_out = <<>>
    /\ cls_out' = <<from_anomaly(cls_in, 0)>>
    /\ UNCHANGED cls_in
    /\ UNCHANGED <<storeVars, connVars, polVars, lstVars, mainVars>>

\* the next anomaly is handed in
ClsNextInput ==
    /\ cls_out # <<>>
    /\ cls_in' \in ClsInputs
    /\ cls_out' = <<>>
    /\ UNCHANGED <<storeVars, connVars, polVars, lstVars, mainVars>>

NextClassify == ClsFromAnomaly \/ ClsNextInput

SpecClassify == InitClassify /\ [][NextClassify]_vars


(***************************************************************************)
(* Helpers of the properties                                               *)
(***************************************************************************)
Min(a, b) == IF a <= b THEN a ELSE b

\* the nodes of a sequence of alerts, in order
Nodes(v) == [i \in 1..Len(v) |-> v[i].node]

\* the last n elements of s (all of s when it is shorter)
LastN(s, n) == IF Len(s) <= n THEN s ELSE SubSeq(s, Len(s) - n + 1, Len(s))

\* the nodes of caller c's first n emit calls, in call order
EmittedNodes(c, n) == [k \in 1..n |-> NodeOf(c, k - 1)]

\* no emit call is between its start and its return
NoEmitInProgress == \A c \in Callers : pc[c] \notin {"emit_lock", "emit_check", "emit_push"}

\* the emit calls that have returned, over all callers
RECURSIVE SumReturned(_)
SumReturned(S) ==
    IF S = {} THEN 0
    ELSE LET c == CHOOSE x \in S : TRUE IN returned[c] + SumReturned(S \ {c})

\* one emit applied to a store of the given capacity, as a sequential store does it
SerialEmit(store, node, capacity) ==
    IF Len(store) >= capacity THEN Append(Tail(store), node) ELSE Append(store, node)

\* the stores (as node sequences) that applying the returned emits one at a time
\* can give, over every total order that keeps each caller's own call order;
\* taken[c] is the number of caller c's emits already applied
RECURSIVE SerialOutcomes(_, _)
SerialOutcomes(store, taken) ==
    IF \A c \in Callers : taken[c] = returned[c]
    THEN {store}
    ELSE UNION {SerialOutcomes(SerialEmit(store, NodeOf(c, taken[c]), max_alerts),
                               [taken EXCEPT ![c] = @ + 1]) :
                c \in {d \in Callers : taken[d] < returned[d]}}

\* severity, most severe highest, stated apart from the enum's discriminants
SeverityRank(p) == CASE p = Critical -> 3 [] p = Warning -> 2 [] p = Info -> 1
AtLeastAsSevere(p, q) == SeverityRank(p) >= SeverityRank(q)

(***************************************************************************)
(* Claims about the alert store (SpecStore)                                *)
(***************************************************************************)

\* C1: in every reachable state of any interleaving of emit, clear and the read
\* calls, for every capacity, the number of stored alerts is at most the capacity.
C1_SizeAtMostCapacity == Len(alerts) <= max_alerts

\* C1 witness: a store of capacity >= 1 is full after at least one eviction,
\* with emits of both callers stored or evicted
C1_Witness ==
    /\ max_alerts >= 1
    /\ Len(alerts) = max_alerts
    /\ Len(lin) > max_alerts
    /\ \A c \in Callers : returned[c] >= 1

\* C2: when a single caller has emitted n alerts into the initially empty store and
\* no clear has run, the store holds exactly the last min(n, capacity) emitted alerts
\* in emission order (so each emit on a full store dropped the oldest and appended).
C2_LastCapacityInOrder ==
    \A c \in Callers :
        (/\ ~cleared
         /\ \A d \in Callers \ {c} : emitted[d] = 0
         /\ pc[c] \in {"idle", "read_body", "clear_body", "panicked"})
        => Nodes(alerts) = LastN(EmittedNodes(c, returned[c]), max_alerts)

\* C2 witness: one caller has emitted capacity + 1 alerts (capacity >= 2)
C2_Witness ==
    \E c \in Callers :
        /\ ~cleared
        /\ \A d \in Callers \ {c} : emitted[d] = 0
        /\ pc[c] = "idle"
        /\ max_alerts >= 2
        /\ returned[c] = max_alerts + 1

\* C3: emit is linearizable: when no emit is in progress (and no clear has run), the
\* store equals the result of applying the returned emits one at a time in some
\* total order that keeps each caller's call order; nothing is lost except by FIFO
\* eviction, nothing is stored twice.
C3_EmitLinearizable ==
    (~cleared /\ NoEmitInProgress)
    => Nodes(alerts) \in SerialOutcomes(<<>>, [c \in Callers |-> 0])

\* C3 witness: both callers' emits returned after overlapping in time (the second
\* caller built its alert before the first one's emit returned), and one was evicted
C3_Witness ==
    /\ ~cleared
    /\ NoEmitInProgress
    /\ \A c \in Callers : returned[c] >= 1
    /\ Len(lin) > max_alerts
    /\ \E i \in 1..Len(alerts) : \E j \in 1..Len(alerts) :
         i < j /\ alerts[i].timestamp > alerts[j].timestamp

\* C4: after N emits by several callers have all returned (no clear), total_count()
\* is min(N, capacity) and the three count_by_priority values sum to total_count().
C4_CountsAfterConcurrentEmits ==
    (~cleared /\ NoEmitInProgress)
    => /\ total_count(alerts) = Min(SumReturned(Callers), max_alerts)
       /\ count_by_priority(alerts, Critical) + count_by_priority(alerts, Warning)
          + count_by_priority(alerts, Info) = total_count(alerts)

\* C4 witness: both callers emitted, more alerts than the capacity, all returned
C4_Witness ==
    /\ ~cleared
    /\ NoEmitInProgress
    /\ \A c \in Callers : returned[c] >= 1
    /\ max_alerts >= 1
    /\ SumReturned(Callers) > max_alerts
    /\ \E i \in 1..Len(alerts) : alerts[i].priority # Critical

\* C5: a total_count() that runs after the store has held `capacity` alerts (no
\* clear since) returns exactly `capacity`: it never sees the store between an
\* eviction and the push that follows it.
C5_ReaderNeverSeesEviction ==
    \A c \in Callers :
        (ret[c].op = "total_count" /\ ret[c].full) => ret[c].val = max_alerts

\* C5 witness: total_count() returned on a full store while another caller's emit
\* was in progress
C5_Witness ==
    \E c \in Callers : \E d \in Callers \ {c} :
        /\ ret[c].op = "total_count"
        /\ ret[c].full
        /\ max_alerts >= 1
        /\ pc[d] \in {"emit_lock", "emit_check", "emit_push"}

\* C7: get_alerts_above(min) returns exactly the stored alerts at least as severe
\* as min, in store order; for Warning: the Critical and Warning ones, no Info.
C7_AlertsAboveExact ==
    \A c \in Callers :
        ret[c].op = "get_alerts_above"
        => /\ ret[c].val =
                SelectSeq(ret[c].snap, LAMBDA a : AtLeastAsSevere(a.priority, ret[c].arg))
           /\ ret[c].arg = Warning
              => \A i \in 1..Len(ret[c].val) : ret[c].val[i].priority \in {Critical, Warning}

\* C7 witness: get_alerts_above(Warning) returned on a store with an Info alert and
\* a more severe one
C7_Witness ==
    \E c \in Callers :
        /\ ret[c].op = "get_alerts_above"
        /\ ret[c].arg = Warning
        /\ Len(ret[c].val) = 1
        /\ Len(ret[c].snap) = 2
        /\ \E i \in 1..2 : ret[c].snap[i].priority = Info

\* the priorities for which the store has a query by equal priority: only
\* get_critical_alerts exists, with the priority fixed in its filter
QueryByPriorityArgs == {call.arg : call \in {r \in ReadCalls : r.op = "get_critical_alerts"}}

\* C8 (as amended): the query by equal priority exists for Critical only;
\* get_critical_alerts returns all stored Critical alerts, oldest first, and the
\* length of the result is count_by_priority(Critical).
C8_CriticalQueryExact ==
    \A c \in Callers :
        ret[c].op = "get_critical_alerts"
        => /\ ret[c].val = SelectSeq(ret[c].snap, LAMBDA a : SeverityRank(a.priority) = 3)
           /\ Len(ret[c].val) = count_by_priority(ret[c].snap, Critical)

\* C8 witness: get_critical_alerts returned on a store holding a Critical alert
\* and another one
C8_Witness ==
    \E c \in Callers :
        /\ ret[c].op = "get_critical_alerts"
        /\ Len(ret[c].val) = 1
        /\ Len(ret[c].snap) = 2

\* C8 as stated: the store answers the query by equal priority for each of the
\* three priorities (and what it returns is the stored alerts of that priority,
\* oldest first, as many as count_by_priority says).
C8_QueryForEveryPriority ==
    /\ \A p \in AlertPriority : p \in QueryByPriorityArgs
    /\ C8_CriticalQueryExact

\* C9: after clear() returns the store is empty (total_count() is 0, every query
\* is empty); the capacity never changes; the emits after a clear fill the store
\* exactly as they fill a fresh store of that capacity.
C9_ClearResets ==
    /\ [](\A c \in Callers :
            ret[c].op = "clear"
            => /\ ret[c].snap = <<>>
               /\ total_count(ret[c].snap) = 0
               /\ \A p \in AlertPriority :
                    /\ get_alerts_above(ret[c].snap, p) = <<>>
                    /\ count_by_priority(ret[c].snap, p) = 0
               /\ get_critical_alerts(ret[c].snap) = <<>>)
    /\ []((\A c \in Callers : pc[c] # "emit_push")
          => Nodes(alerts) = LastN(lin, max_alerts))
    /\ [][max_alerts' = max_alerts]_vars

\* C9 witness: clear() returned on a store that held alerts, and an emit after it
\* is stored
C9_Witness ==
    \E c \in Callers :
        /\ ret[c].op = "clear"
        /\ cleared
        /\ SumReturned(Callers) >= 2
        /\ Len(alerts) = 1
        /\ max_alerts >= 1

(***************************************************************************)
(* Claims about Alert::from_anomaly (SpecClassify)                         *)
(***************************************************************************)

IPC_MAGIC == 21930   \* 0x55AA

\* u16::to_le_bytes / u32::to_le_bytes, as the peer (and test_ipc_server) writes them
u16_to_le_bytes(n) == <<n % 256, (n \div 256) % 256>>
u32_to_le_bytes(n) ==
    <<n % 256, (n \div 256) % 256, (n \div 65536) % 256, (n \div 16777216) % 256>>

\* mutant of u16_from_le_bytes: the first byte is taken as the high byte
u16_from_be_bytes(b0, b1) == 256 * b0 + b1

\* u16::from_le_bytes([b0, b1])
u16_from_le_bytes(b0, b1) == b0 + 256 * b1

\* u32::from_le_bytes([b0, b1, b2, b3])
u32_from_le_bytes(b0, b1, b2, b3) == b0 + 256 * b1 + 65536 * b2 + 16777216 * b3

\* handle_connection, lines 137-141: Magic(2), Type(1), Flags(1), Length(4)
DecodeHeader(buf) ==
    [magic      |-> u16_from_le_bytes(buf[1], buf[2]),
     event_type |-> buf[3],
     flags      |-> buf[4],
     length     |-> u32_from_le_bytes(buf[5], buf[6], buf[7], buf[8])]

\* a 32-byte DID with every byte b
Did(b) == [i \in 1..32 |-> b]

\* a frame as the peer writes it: header, then the payload
EncodeFrame(f) ==
    u16_to_le_bytes(f.magic) \o <<f.event_type, f.flags>>
    \o u32_to_le_bytes(Len(f.payload)) \o f.payload

Frame(m, t, fl, pl) == [magic |-> m, event_type |-> t, flags |-> fl, payload |-> pl]

\* The frames a peer may write.  The unknown-type frame carries, as its payload,
\* the bytes of a whole ConnectionEstablished frame.  The last two have a wrong
\* magic: 0x0000, and 0xAA55 (the two magic bytes in the wrong order).
WireFrames ==
    {Frame(IPC_MAGIC, 1, 0, Did(255) \o <<42>> \o u32_to_le_bytes(1024)),
     Frame(IPC_MAGIC, 1, 1, Did(17) \o <<7>> \o u32_to_le_bytes(70000) \o <<9, 9, 9>>),
     Frame(IPC_MAGIC, 1, 0, <<1, 2, 3, 4, 5, 6, 7, 8, 9, 10>>),
     Frame(IPC_MAGIC, 1, 0, <<>>),
     Frame(IPC_MAGIC, 2, 0, [i \in 1..32 |-> i]),
     Frame(IPC_MAGIC, 2, 0, <<1, 2, 3, 4, 5, 6, 7, 8, 9, 10>>),
     Frame(IPC_MAGIC, 3, 0, EncodeFrame(Frame(IPC_MAGIC, 2, 0, Did(187)))),
     Frame(IPC_MAGIC, 0, 128, <<>>),
     Frame(0, 1, 0, Did(255) \o <<42>> \o u32_to_le_bytes(1024)),
     Frame(43605, 2, 0, Did(170))}

MaxFrames == 2       \* frames written on one connection

\* every sequence of at most MaxFrames frames
WireChoices == UNION {[1..n -> WireFrames] : n \in 0..MaxFrames}

RECURSIVE EncodeWire(_)
EncodeWire(w) == IF w = <<>> THEN <<>> ELSE EncodeFrame(Head(w)) \o EncodeWire(Tail(w))

\* bytes missing at the end when the peer stops early
Cuts == {0, 1, 9}


BufferSize == 2      \* config.buffer_size of mpsc::channel

\* one connection has been accepted and handle_connection spawned for it; the
\* peer writes some frames, possibly stops inside the last one, and the stream
\* ends (closed by the peer, or failing with an error other than end-of-file)
InitConn ==
    /\ StoreFresh(0)
    /\ ClsIdle
    /\ OthersIdle
    /\ \E w \in WireChoices : \E cut \in Cuts : \E e \in {"eof", "reset"} :
         /\ cut <= Len(EncodeWire(w))
         /\ wire = [k \in Conns |-> IF k = 1 THEN w ELSE <<>>]
         /\ stream = [k \in Conns |->
                        IF k = 1
                        THEN SubSeq(EncodeWire(w), 1, Len(EncodeWire(w)) - cut)
                        ELSE <<>>]
         /\ ending = [k \in Conns |-> IF k = 1 THEN e ELSE "eof"]
    /\ pos = [k \in Conns |-> 0]
    /\ hpc = [k \in Conns |-> IF k = 1 THEN "read_header" ELSE "unconnected"]
    /\ hdr = [k \in Conns |-> NoHeader]
    /\ payload = [k \in Conns |-> <<>>]
    /\ pending = [k \in Conns |-> NoEvent]
    /\ hres = [k \in Conns |-> "running"]
    /\ flog = [k \in Conns |-> <<>>]
    /\ queue = <<>>
    /\ rx_closed = FALSE
    /\ delivered = <<>>

\* bytes of the stream not yet consumed
Available(k) == Len(stream[k]) - pos[k]

\* handle_connection returns r
Finish(k, r) ==
    /\ hpc' = [hpc EXCEPT ![k] = "done"]
    /\ hres' = [hres EXCEPT ![k] = r]

\* mutant of HcReadHeader: every failure of the header read is returned as an
\* I/O error, end-of-file included
HcReadHeaderEofIsError(k) ==
    /\ hpc[k] = "read_header"
    /\ IF Available(k) >= 8
       THEN LET h == DecodeHeader(SubSeq(stream[k], pos[k] + 1, pos[k] + 8)) IN
            /\ pos' = [pos EXCEPT ![k] = @ + 8]
            /\ hdr' = [hdr EXCEPT ![k] = h]
            /\ IF h.magic # IPC_MAGIC
               THEN Finish(k, "ProtocolError")
               ELSE /\ hpc' = [hpc EXCEPT ![k] = "read_payload"]
                    /\ UNCHANGED hres
       ELSE /\ pos' = [pos EXCEPT ![k] = Len(stream[k])]
            /\ UNCHANGED hdr
            /\ Finish(k, "IoError")
    /\ UNCHANGED <<wire, stream, ending, payload, pending, flog, queue, rx_closed, delivered>>
    /\ UNCHANGED <<storeVars, clsVars, polVars, lstVars, mainVars>>

\* handle_connection, lines 129-146: read_exact of the 8 header bytes, decode,
\* check the magic.  read_exact fails with UnexpectedEof when the stream ends
\* before 8 bytes were read (the handler then breaks and returns Ok), with
\* another error when the stream fails.
HcReadHeader(k) ==
    /\ hpc[k] = "read_header"
    /\ IF Available(k) >= 8
       THEN LET h == DecodeHeader(SubSeq(stream[k], pos[k] + 1, pos[k] + 8)) IN
            /\ pos' = [pos EXCEPT ![k] = @ + 8]
            /\ hdr' = [hdr EXCEPT ![k] = h]
            /\ IF h.magic # IPC_MAGIC
               THEN Finish(k, "ProtocolError")
               ELSE /\ hpc' = [hpc EXCEPT ![k] = "read_payload"]
                    /\ UNCHANGED hres
       ELSE /\ pos' = [pos EXCEPT ![k] = Len(stream[k])]
            /\ UNCHANGED hdr
            /\ IF ending[k] = "eof" THEN Finish(k, "Ok") ELSE Finish(k, "IoError")
    /\ UNCHANGED <<wire, stream, ending, payload, pending, flog, queue, rx_closed, delivered>>
    /\ UNCHANGED <<storeVars, clsVars, polVars, lstVars, mainVars>>

\* mutant of PayloadBytes: the payload is read for the known types only
PayloadBytesKnownTypes(h) == IF h.event_type \in {1, 2} THEN h.length ELSE 0

\* handle_connection, line 149: the payload buffer has `length` bytes, for every type
PayloadBytes(h) == h.length

\* mutant of HcReadPayload: end-of-file inside the payload is taken as a clean
\* disconnect, as it is for the header
HcReadPayloadEofIsClean(k) ==
    /\ hpc[k] = "read_payload"
    /\ LET n == PayloadBytes(hdr[k]) IN
       IF n = 0 \/ Available(k) >= n
       THEN /\ payload' = [payload EXCEPT ![k] = SubSeq(stream[k], pos[k] + 1, pos[k] + n)]
            /\ pos' = [pos EXCEPT ![k] = @ + n]
            /\ flog' = [flog EXCEPT ![k] =
                          Append(@, [start |-> pos[k] - 8, stop |-> pos[k] + n, hdr |-> hdr[k]])]
            /\ hpc' = [hpc EXCEPT ![k] = "parse"]
            /\ UNCHANGED hres
       ELSE /\ pos' = [pos EXCEPT ![k] = Len(stream[k])]
            /\ IF ending[k] = "eof" THEN Finish(k, "Ok") ELSE Finish(k, "IoError")
            /\ UNCHANGED <<payload, flog>>
    /\ UNCHANGED <<wire, stream, ending, hdr, pending, queue, rx_closed, delivered>>
    /\ UNCHANGED <<storeVars, clsVars, polVars, lstVars, mainVars>>

\* handle_connection, lines 148-153: read_exact of the payload when length > 0;
\* any failure, end-of-file included, is returned as IoError
HcReadPayload(k) ==
    /\ hpc[k] = "read_payload"
    /\ LET n == PayloadBytes(hdr[k]) IN
       IF n = 0 \/ Available(k) >= n
       THEN /\ payload' = [payload EXCEPT ![k] = SubSeq(stream[k], pos[k] + 1, pos[k] + n)]
            /\ pos' = [pos EXCEPT ![k] = @ + n]
            /\ flog' = [flog EXCEPT ![k] =
                          Append(@, [start |-> pos[k] - 8, stop |-> pos[k] + n, hdr |-> hdr[k]])]
            /\ hpc' = [hpc EXCEPT ![k] = "parse"]
            /\ UNCHANGED hres
       ELSE /\ pos' = [pos EXCEPT ![k] = Len(stream[k])]
            /\ Finish(k, "IoError")
            /\ UNCHANGED <<payload, flog>>
    /\ UNCHANGED <<wire, stream, ending, hdr, pending, queue, rx_closed, delivered>>
    /\ UNCHANGED <<storeVars, clsVars, polVars, lstVars, mainVars>>

\* mutant of PacketReceived: the packet type is taken one byte early
PacketReceivedTypeAt32(pl) ==
    [kind        |-> "PacketReceived",
     sender_did  |-> SubSeq(pl, 1, 32),
     packet_type |-> pl[32],
     payload_size |-> u32_from_le_bytes(pl[34], pl[35], pl[36], pl[37])]

\* handle_connection, lines 162-171: L0Event::PacketReceived from the payload
PacketReceived(pl) ==
    [kind        |-> "PacketReceived",
     sender_did  |-> SubSeq(pl, 1, 32),
     packet_type |-> pl[33],
     payload_size |-> u32_from_le_bytes(pl[34], pl[35], pl[36], pl[37])]

\* mutant of ConnectionEstablished: the payload is not copied into the DID,
\* which keeps its initial zeroes
ConnectionEstablishedZeroDid(pl) ==
    [kind |-> "ConnectionEstablished", peer_did |-> [j \in 1..32 |-> 0]]

\* handle_connection, lines 181-185: L0Event::ConnectionEstablished from the payload
ConnectionEstablished(pl) ==
    [kind |-> "ConnectionEstablished", peer_did |-> SubSeq(pl, 1, 32)]

\* mutant of HcParse: a PacketReceived payload shorter than 37 bytes ends the
\* handler with a protocol error instead of `continue`
HcParseShortIsFatal(k) ==
    /\ hpc[k] = "parse"
    /\ IF hdr[k].event_type = 1 /\ Len(payload[k]) >= 37
       THEN /\ pending' = [pending EXCEPT ![k] = PacketReceived(payload[k])]
            /\ hpc' = [hpc EXCEPT ![k] = "send"]
            /\ UNCHANGED hres
       ELSE IF hdr[k].event_type = 1
       THEN /\ Finish(k, "ProtocolError")
            /\ UNCHANGED pending
       ELSE IF hdr[k].event_type = 2 /\ Len(payload[k]) >= 32
       THEN /\ pending' = [pending EXCEPT ![k] = ConnectionEstablished(payload[k])]
            /\ hpc' = [hpc EXCEPT ![k] = "send"]
            /\ UNCHANGED hres
       ELSE /\ hpc' = [hpc EXCEPT ![k] = "read_header"]
            /\ UNCHANGED <<pending, hres>>
    /\ UNCHANGED <<wire, stream, ending, pos, hdr, payload, flog, queue,
                   rx_closed, delivered>>
    /\ UNCHANGED <<storeVars, clsVars, polVars, lstVars, mainVars>>

\* handle_connection, lines 156-191: match event_type; a short payload of a known
\* type and an unknown type both go on with the next frame
HcParse(k) ==
    /\ hpc[k] = "parse"
    /\ IF hdr[k].event_type = 1 /\ Len(payload[k]) >= 37
       THEN /\ pending' = [pending EXCEPT ![k] = PacketReceived(payload[k])]
            /\ hpc' = [hpc EXCEPT ![k] = "send"]
       ELSE IF hdr[k].event_type = 2 /\ Len(payload[k]) >= 32
       THEN /\ pending' = [pending EXCEPT ![k] = ConnectionEstablished(payload[k])]
            /\ hpc' = [hpc EXCEPT ![k] = "send"]
       ELSE /\ hpc' = [hpc EXCEPT ![k] = "read_header"]
            /\ UNCHANGED pending
    /\ UNCHANGED <<wire, stream, ending, pos, hdr, payload, hres, flog, queue,
                   rx_closed, delivered>>
    /\ UNCHANGED <<storeVars, clsVars, polVars, lstVars, mainVars>>

\* mutant of HcSend: a failed send is returned as an error (ChannelClosed, as
\* inject_event does) instead of `break`
HcSendClosedIsError(k) ==
    /\ hpc[k] = "send"
    /\ \/ /\ rx_closed
          /\ Finish(k, "ChannelClosed")
          /\ UNCHANGED queue
       \/ /\ ~rx_closed
          /\ Len(queue) < BufferSize
          /\ queue' = Append(queue, [conn |-> k, frame |-> Len(flog[k]), ev |-> pending[k]])
          /\ hpc' = [hpc EXCEPT ![k] = "read_header"]
          /\ UNCHANGED hres
    /\ pending' = [pending EXCEPT ![k] = NoEvent]
    /\ UNCHANGED <<wire, stream, ending, pos, hdr, payload, flog, rx_closed, delivered>>
    /\ UNCHANGED <<storeVars, clsVars, polVars, lstVars, mainVars>>

\* mutant of HcSend: on a full queue the event is dropped and the handler goes
\* on (try_send in place of send().await)
HcSendDropsWhenFull(k) ==
    /\ hpc[k] = "send"
    /\ \/ /\ rx_closed
          /\ Finish(k, "Ok")
          /\ UNCHANGED queue
       \/ /\ ~rx_closed
          /\ queue' = IF Len(queue) < BufferSize
                      THEN Append(queue, [conn |-> k, frame |-> Len(flog[k]), ev |-> pending[k]])
                      ELSE queue
          /\ hpc' = [hpc EXCEPT ![k] = "read_header"]
          /\ UNCHANGED hres
    /\ pending' = [pending EXCEPT ![k] = NoEvent]
    /\ UNCHANGED <<wire, stream, ending, pos, hdr, payload, flog, rx_closed, delivered>>
    /\ UNCHANGED <<storeVars, clsVars, polVars, lstVars, mainVars>>

\* handle_connection, lines 173-175 and 186: tx.send(event).await waits while the
\* buffer is full; when the Receiver is closed it fails and the handler breaks
HcSend(k) ==
    /\ hpc[k] = "send"
    /\ \/ /\ rx_closed
          /\ Finish(k, "Ok")
          /\ UNCHANGED queue
       \/ /\ ~rx_closed
          /\ Len(queue) < BufferSize
          /\ queue' = Append(queue, [conn |-> k, frame |-> Len(flog[k]), ev |-> pending[k]])
          /\ hpc' = [hpc EXCEPT ![k] = "read_header"]
          /\ UNCHANGED hres
    /\ pending' = [pending EXCEPT ![k] = NoEvent]
    /\ UNCHANGED <<wire, stream, ending, pos, hdr, payload, flog, rx_closed, delivered>>
    /\ UNCHANGED <<storeVars, clsVars, polVars, lstVars, mainVars>>

\* mutant of Recv: the newest queued event is taken first
RecvNewest ==
    /\ ~rx_closed
    /\ queue # <<>>
    /\ delivered' = Append(delivered, queue[Len(queue)])
    /\ queue' = SubSeq(queue, 1, Len(queue) - 1)
    /\ UNCHANGED <<wire, stream, ending, pos, hpc, hdr, payload, pending, hres, flog, rx_closed>>
    /\ UNCHANGED <<storeVars, clsVars, polVars, lstVars, mainVars>>

\* main, line 82: event_rx.recv() takes the oldest queued event
Recv ==
    /\ ~rx_closed
    /\ queue # <<>>
    /\ delivered' = Append(delivered, Head(queue))
    /\ queue' = Tail(queue)
    /\ UNCHANGED <<wire, stream, ending, pos, hpc, hdr, payload, pending, hres, flog, rx_closed>>
    /\ UNCHANGED <<storeVars, clsVars, polVars, lstVars, mainVars>>

\* main, lines 115-128: the event loop ends and the Receiver is dropped with
\* whatever is still queued
CloseRx ==
    /\ ~rx_closed
    /\ rx_closed' = TRUE
    /\ queue' = <<>>
    /\ UNCHANGED <<wire, stream, ending, pos, hpc, hdr, payload, pending, hres, flog, delivered>>
    /\ UNCHANGED <<storeVars, clsVars, polVars, lstVars, mainVars>>

NextConn ==
    \/ \E k \in Conns :
         \/ HcReadHeader(k)
         \/ HcReadPayload(k)
         \/ HcParse(k)
         \/ HcSend(k)
    \/ Recv
    \/ CloseRx

SpecConn == InitConn /\ [][NextConn]_vars


(***************************************************************************)
(* Several connections at once: start() spawns one handle_connection per   *)
(* accepted connection, all sending into clones of the same Sender         *)
(***************************************************************************)
\* frame j of connection k: a PacketReceived frame that names its connection
\* in the DID and its place in packet_type and payload_size, or, at place
\* `gap`, a PacketReceived frame of two payload bytes (gap 0: no such frame)
MultiFrame(k, j, gap) ==
    IF j = gap
    THEN Frame(IPC_MAGIC, 1, 0, <<k, j>>)
    ELSE Frame(IPC_MAGIC, 1, 0, Did(k) \o <<j>> \o u32_to_le_bytes(256 * j + k))

\* what the peer of connection k writes: MaxFrames frames on connection 1 (the
\* first of them short when gap = 1), one frame fewer on each further
\* connection, and at least one
MultiWire(k, gap) ==
    IF k = 1
    THEN [j \in 1..MaxFrames |-> MultiFrame(k, j, gap)]
    ELSE IF k < MaxFrames
    THEN [j \in 1..(MaxFrames + 1 - k) |-> MultiFrame(k, j, 0)]
    ELSE <<MultiFrame(k, 1, 0)>>

\* every connection has been accepted and its handler spawned; each peer writes
\* its frames and closes
InitMulti ==
    /\ StoreFresh(0)
    /\ ClsIdle
    /\ OthersIdle
    /\ \E gap \in {0, 1} :
         /\ wire = [k \in Conns |-> MultiWire(k, gap)]
         /\ stream = [k \in Conns |-> EncodeWire(MultiWire(k, gap))]
    /\ ending = [k \in Conns |-> "eof"]
    /\ pos = [k \in Conns |-> 0]
    /\ hpc = [k \in Conns |-> "read_header"]
    /\ hdr = [k \in Conns |-> NoHeader]
    /\ payload = [k \in Conns |-> <<>>]
    /\ pending = [k \in Conns |-> NoEvent]
    /\ hres = [k \in Conns |-> "running"]
    /\ flog = [k \in Conns |-> <<>>]
    /\ queue = <<>>
    /\ rx_closed = FALSE
    /\ delivered = <<>>

NextMulti ==
    \/ \E k \in Conns :
         \/ HcReadHeader(k)
         \/ HcReadPayload(k)
         \/ HcParse(k)
         \/ HcSend(k)
    \/ Recv
    \/ CloseRx

SpecMulti == InitMulti /\ [][NextMulti]_vars

\* the same while the consumer keeps receiving and never closes
NextOpen ==
    \/ \E k \in Conns :
         \/ HcReadHeader(k)
         \/ HcReadPayload(k)
         \/ HcParse(k)
         \/ HcSend(k)
    \/ Recv

\* every spawned handler task is scheduled again and again, and the consumer
\* loop of main keeps calling recv()
FairOpen ==
    /\ \A k \in Conns :
         /\ WF_vars(HcReadHeader(k))
         /\ WF_vars(HcReadPayload(k))
         /\ WF_vars(HcParse(k))
         /\ WF_vars(HcSend(k))
    /\ WF_vars(Recv)

SpecMultiFair == InitMulti /\ [][NextOpen]_vars /\ FairOpen


(***************************************************************************)
(* EventListener::start, lines 92-108: the accept loop.  A connection      *)
(* that is accepted gets its own handler task; a failed accept is logged   *)
(* and the loop goes on; a handler's error is logged by its own task.      *)
(***************************************************************************)
MaxAcceptErrors == 1   \* failed accepts in one run

ErrKinds == {"good", "magic", "io"}

\* what the peer of connection k writes: a well-formed frame, then a second
\* one that is well-formed, or has the magic 0x0000, or is cut short
AcceptWire(k, kind) ==
    IF kind = "magic"
    THEN <<MultiFrame(k, 1, 0), Frame(0, 1, 0, MultiFrame(k, 2, 0).payload)>>
    ELSE <<MultiFrame(k, 1, 0), MultiFrame(k, 2, 0)>>

\* the bytes of it that arrive: all, or all but the last one before the
\* stream fails
AcceptStream(k, kind) ==
    LET bytes == EncodeWire(AcceptWire(k, kind))
    IN IF kind = "io" THEN SubSeq(bytes, 1, Len(bytes) - 1) ELSE bytes

\* listener 1 is bound and in its accept loop; no peer has connected yet
InitAccept ==
    /\ StoreFresh(0)
    /\ ClsIdle
    /\ PolIdle
    /\ MainIdle
    /\ sock_path = 1
    /\ lst = [l \in Listeners |-> IF l = 1 THEN "accepting" ELSE "new"]
    /\ accept_errs = 0
    /\ \E kinds \in [Conns -> ErrKinds] :
         /\ wire = [k \in Conns |-> AcceptWire(k, kinds[k])]
         /\ stream = [k \in Conns |-> AcceptStream(k, kinds[k])]
         /\ ending = [k \in Conns |-> IF kinds[k] = "io" THEN "reset" ELSE "eof"]
    /\ pos = [k \in Conns |-> 0]
    /\ hpc = [k \in Conns |-> "unconnected"]
    /\ hdr = [k \in Conns |-> NoHeader]
    /\ payload = [k \in Conns |-> <<>>]
    /\ pending = [k \in Conns |-> NoEvent]
    /\ hres = [k \in Conns |-> "running"]
    /\ flog = [k \in Conns |-> <<>>]
    /\ queue = <<>>
    /\ rx_closed = FALSE
    /\ delivered = <<>>

\* start, lines 93-103: accept returns the next connection (connections are
\* numbered in the order they arrive) and its handler is spawned
AcceptOk(k) ==
    /\ lst[1] = "accepting"
    /\ hpc[k] = "unconnected"
    /\ \A j \in Conns : j < k => hpc[j] # "unconnected"
    /\ hpc' = [hpc EXCEPT ![k] = "read_header"]
    /\ UNCHANGED <<wire, stream, ending, pos, hdr, payload, pending, hres, flog, queue,
                   rx_closed, delivered>>
    /\ UNCHANGED <<storeVars, clsVars, polVars, lstVars, mainVars>>

\* mutant of AcceptFail: the accept error is returned from start (`?`), which
\* ends the accept loop
AcceptFailStops ==
    /\ lst[1] = "accepting"
    /\ accept_errs < MaxAcceptErrors
    /\ accept_errs' = accept_errs + 1
    /\ lst' = [lst EXCEPT ![1] = "failed"]
    /\ UNCHANGED sock_path
    /\ UNCHANGED <<storeVars, clsVars, connVars, polVars, mainVars>>

\* start, lines 104-106: accept fails; the error is logged and the loop goes on
AcceptFail ==
    /\ lst[1] = "accepting"
    /\ accept_errs < MaxAcceptErrors
    /\ accept_errs' = accept_errs + 1
    /\ UNCHANGED <<sock_path, lst>>
    /\ UNCHANGED <<storeVars, clsVars, connVars, polVars, mainVars>>

NextAccept ==
    \/ \E k \in Conns :
         \/ AcceptOk(k)
         \/ HcReadHeader(k)
         \/ HcReadPayload(k)
         \/ HcParse(k)
         \/ HcSend(k)
    \/ AcceptFail
    \/ Recv

SpecAccept == InitAccept /\ [][NextAccept]_vars


(***************************************************************************)
(* The oracle client (QvlClient) and the policy enforcer (PolicyEnforcer). *)
(* The oracle is external: what it answers to a call is chosen freely and  *)
(* recorded in pol_call.said.  f64 values are in hundredths, a value is    *)
(* returned as a sequence of integers (a score s as <<s>>, unit as <<>>).  *)
(***************************************************************************)
MaxBatch == 2        \* node ids in one batch_check_betrayal call

\* self.ctx: "null" is the handle every operation tests with is_null()
Handles == {"valid", "null"}

\* 32-byte identifiers, named by their fill byte, and node ids
SenderDids == {0, 255}
NodeIds == {0, 1}

\* answers of qvl_get_trust_score / qvl_get_reputation (negative: no record)
OracleScores == {-100, 0, 5, 10, 30, 50, 60, NaN}

\* answers of qvl_detect_betrayal (the score of the QvlAnomalyScore)
AnomalyScores == {0, 70, 71, 100, NaN}
BatchScores == {70, 71, NaN}

\* arguments given to with_thresholds
ThresholdValues == {10, 50, NaN}

DefaultDropThreshold == 10
DefaultUntrustedThreshold == 50
BetrayalScore == 70

Ok(v) == [tag |-> "Ok", err |-> "none", val |-> v, calls |-> 1]
Err(e, n) == [tag |-> "Err", err |-> e, val |-> <<>>, calls |-> n]
Some(v, n) == [tag |-> "Some", err |-> "none", val |-> v, calls |-> n]
None(n) == [tag |-> "None", err |-> "none", val |-> <<>>, calls |-> n]

\* what the caller holds: the value without the count of oracle calls
Returned(r) == [tag |-> r.tag, err |-> r.err, val |-> r.val]

\* mutant of get_trust_score: a negative answer is returned as a score
get_trust_score_unchecked(ctx, raw) ==
    IF ctx = "null" THEN Err("NullContext", 0)
    ELSE Ok(<<raw>>)

\* QvlClient::get_trust_score
get_trust_score(ctx, raw) ==
    IF ctx = "null" THEN Err("NullContext", 0)
    ELSE IF FLt(raw, 0) THEN Err("TrustScoreFailed", 1)
    ELSE Ok(<<raw>>)

\* QvlClient::get_reputation
get_reputation(ctx, raw) ==
    IF ctx = "null" THEN Err("NullContext", 0)
    ELSE IF FLt(raw, 0) THEN Err("TrustScoreFailed", 1)
    ELSE Ok(<<raw>>)

\* QvlClient::verify_pop: the verdict of the oracle is passed on
verify_pop(ctx, verdict) ==
    IF ctx = "null" THEN Err("NullContext", 0)
    ELSE Ok(<< verdict >>)

\* QvlClient::detect_betrayal: the anomaly of the oracle is passed on
detect_betrayal(ctx, score) ==
    IF ctx = "null" THEN Err("NullContext", 0)
    ELSE Ok(<<score>>)

\* QvlClient::add_trust_edge
add_trust_edge(ctx, result) ==
    IF ctx = "null" THEN Err("NullContext", 0)
    ELSE IF result = 0 THEN Ok(<<>>)
    ELSE Err("MutationFailed", 1)

\* QvlClient::revoke_trust_edge
revoke_trust_edge(ctx, result) ==
    IF ctx = "null" THEN Err("NullContext", 0)
    ELSE IF result = 0 THEN Ok(<<>>)
    ELSE Err("MutationFailed", 1)

\* QvlClient::get_did: `result` is the bool of qvl_get_did, `b` fills out
get_did(ctx, result, b) ==
    IF ctx = "null" THEN None(0)
    ELSE IF result = 1 THEN Some(Did(b), 1)
    ELSE None(1)

\* QvlClient::register_node
register_node(ctx, result, out_id) ==
    IF ctx = "null" THEN Err("NullContext", 0)
    ELSE IF result = 1 THEN Ok(<<out_id>>)
    ELSE Err("MutationFailed", 1)

\* QvlClient::get_betrayal_evidence: the first call asks for the length, the
\* second fills a buffer of that length
get_betrayal_evidence(ctx, len, written) ==
    IF ctx = "null" THEN Err("NullContext", 0)
    ELSE IF len = 0 THEN Err("MutationFailed", 1)
    ELSE IF written # len THEN Err("MutationFailed", 2)
    ELSE [tag |-> "Ok", err |-> "none", val |-> [i \in 1..len |-> 1], calls |-> 2]

\* QvlClient::issue_slash_signal
issue_slash_signal(ctx, result) ==
    IF ctx = "null" THEN Err("NullContext", 0)
    ELSE IF result = 0 THEN Ok([i \in 1..82 |-> 0])
    ELSE Err("MutationFailed", 1)

\* PolicyEnforcer::new
PolicyEnforcer_new(ctx) ==
    [ctx |-> ctx,
     drop_threshold |-> DefaultDropThreshold,
     untrusted_threshold |-> DefaultUntrustedThreshold]

\* PolicyEnforcer::with_thresholds
with_thresholds(ctx, drop_threshold, untrusted_threshold) ==
    [ctx |-> ctx,
     drop_threshold |-> drop_threshold,
     untrusted_threshold |-> untrusted_threshold]

\* PolicyEnforcer::should_accept_packet, for the oracle's answer raw
should_accept_packet(e, raw) ==
    LET r == get_trust_score(e.ctx, raw) IN
    IF r.tag = "Ok" /\ FLt(r.val[1], e.drop_threshold) THEN "Drop"
    ELSE IF r.tag = "Ok" /\ FLt(r.val[1], e.untrusted_threshold) THEN "Deprioritize"
    ELSE IF r.tag = "Ok" THEN "Accept"
    ELSE IF r.err \in {"TrustScoreFailed", "InvalidDid"} THEN "Neutral"
    ELSE "Neutral"

\* mutant of check_for_betrayal: the comparison is >= for >
check_for_betrayal_inclusive(ctx, score) ==
    LET r == detect_betrayal(ctx, score) IN
    IF r.tag = "Ok" /\ FGe(r.val[1], BetrayalScore) THEN Some(r.val, r.calls)
    ELSE None(r.calls)

\* PolicyEnforcer::check_for_betrayal, for the oracle's answer score
check_for_betrayal(ctx, score) ==
    LET r == detect_betrayal(ctx, score) IN
    IF r.tag = "Ok" /\ FGt(r.val[1], BetrayalScore) THEN Some(r.val, r.calls)
    ELSE None(r.calls)

\* PolicyEnforcer::batch_check_betrayal: filter_map over node_ids in order;
\* said[i] is the oracle's answer to the i-th call
RECURSIVE batch_check_betrayal(_, _, _)
batch_check_betrayal(ctx, node_ids, said) ==
    IF node_ids = <<>> THEN <<>>
    ELSE LET f == check_for_betrayal(ctx, Head(said)) IN
         (IF f.tag = "Some" THEN << <<Head(node_ids), f.val[1]>> >> ELSE <<>>)
         \o batch_check_betrayal(ctx, Tail(node_ids), Tail(said))

\* the operations of QvlClient
ClientOps == {"get_trust_score", "get_reputation", "verify_pop", "detect_betrayal",
              "add_trust_edge", "revoke_trust_edge", "get_did", "register_node",
              "get_betrayal_evidence", "issue_slash_signal"}

\* what the oracle may answer to each operation
Answers(op) ==
    CASE op \in {"get_trust_score", "get_reputation"} -> {<<s>> : s \in OracleScores}
      [] op = "verify_pop" -> {<<v>> : v \in 0..4}
      [] op = "detect_betrayal" -> {<<s>> : s \in AnomalyScores}
      [] op \in {"add_trust_edge", "revoke_trust_edge", "issue_slash_signal"} ->
           {<<0>>, <<1>>, <<-1>>}
      [] op = "get_did" -> {<<0, 0>>, <<1, 255>>}
      [] op = "register_node" -> {<<0, 0>>, <<1, 1>>}
      [] op = "get_betrayal_evidence" ->
           {<<len, written>> : len \in 0..2, written \in 0..2}

\* the result of operation op on handle ctx when the oracle answers a
ClientResult(op, ctx, a) ==
    CASE op = "get_trust_score" -> get_trust_score(ctx, a[1])
      [] op = "get_reputation" -> get_reputation(ctx, a[1])
      [] op = "verify_pop" -> verify_pop(ctx, a[1])
      [] op = "detect_betrayal" -> detect_betrayal(ctx, a[1])
      [] op = "add_trust_edge" -> add_trust_edge(ctx, a[1])
      [] op = "revoke_trust_edge" -> revoke_trust_edge(ctx, a[1])
      [] op = "get_did" -> get_did(ctx, a[1], a[2])
      [] op = "register_node" -> register_node(ctx, a[1], a[2])
      [] op = "get_betrayal_evidence" -> get_betrayal_evidence(ctx, a[1], a[2])
      [] op = "issue_slash_signal" -> issue_slash_signal(ctx, a[1])

\* main, lines 21-25: the client is opened and an enforcer built on it; the
\* null handle is the case the is_null() tests of the operations are for
InitPolicy ==
    /\ StoreFresh(0)
    /\ ClsIdle
    /\ ConnIdle
    /\ LstIdle
    /\ MainIdle
    /\ \E ctx \in Handles : enf = PolicyEnforcer_new(ctx)
    /\ pol_call = NoPolCall
    /\ pol_ret = NoPolRet
    /\ ffi_calls = 0
    /\ sap_call = [c \in Callers |-> NoSap]
    /\ sap_log = {}

\* a new enforcer on the same client, with the default thresholds
New ==
    /\ enf' = PolicyEnforcer_new(enf.ctx)
    /\ pol_call' = NoPolCall
    /\ pol_ret' = NoPolRet
    /\ ffi_calls' = 0
    /\ UNCHANGED <<sap_call, sap_log>>
    /\ UNCHANGED <<storeVars, clsVars, connVars, lstVars, mainVars>>

\* a new enforcer on the same client, with the caller's thresholds
WithThresholds ==
    /\ \E d \in ThresholdValues, u \in ThresholdValues :
         enf' = with_thresholds(enf.ctx, d, u)
    /\ pol_call' = NoPolCall
    /\ pol_ret' = NoPolRet
    /\ ffi_calls' = 0
    /\ UNCHANGED <<sap_call, sap_log>>
    /\ UNCHANGED <<storeVars, clsVars, connVars, lstVars, mainVars>>

ShouldAcceptPacket ==
    /\ \E did \in SenderDids, raw \in OracleScores :
         /\ pol_call' = [op |-> "should_accept_packet", arg |-> <<did>>, said |-> <<raw>>]
         /\ pol_ret' = [kind |-> "decision", val |-> should_accept_packet(enf, raw)]
         /\ ffi_calls' = get_trust_score(enf.ctx, raw).calls
    /\ UNCHANGED <<enf, sap_call, sap_log>>
    /\ UNCHANGED <<storeVars, clsVars, connVars, lstVars, mainVars>>

CheckForBetrayal ==
    /\ \E node_id \in NodeIds, score \in AnomalyScores :
         LET f == check_for_betrayal(enf.ctx, score) IN
         /\ pol_call' = [op |-> "check_for_betrayal", arg |-> <<node_id>>, said |-> <<score>>]
         /\ pol_ret' = [kind |-> "finding", val |-> Returned(f)]
         /\ ffi_calls' = f.calls
    /\ UNCHANGED <<enf, sap_call, sap_log>>
    /\ UNCHANGED <<storeVars, clsVars, connVars, lstVars, mainVars>>

BatchCheckBetrayal ==
    /\ \E n \in 0..MaxBatch :
         \E node_ids \in [1..n -> NodeIds], said \in [1..n -> BatchScores] :
           /\ pol_call' = [op |-> "batch_check_betrayal", arg |-> node_ids, said |-> said]
           /\ pol_ret' = [kind |-> "batch",
                          val |-> batch_check_betrayal(enf.ctx, node_ids, said)]
           /\ ffi_calls' = IF enf.ctx = "null" THEN 0 ELSE n
    /\ UNCHANGED <<enf, sap_call, sap_log>>
    /\ UNCHANGED <<storeVars, clsVars, connVars, lstVars, mainVars>>

\* one call of operation op of the client the enforcer shares
ClientCall(op) ==
    /\ \E x \in NodeIds, a \in Answers(op) :
         LET r == ClientResult(op, enf.ctx, a) IN
         /\ pol_call' = [op |-> op, arg |-> <<x>>, said |-> a]
         /\ pol_ret' = [kind |-> "client", val |-> Returned(r)]
         /\ ffi_calls' = r.calls
    /\ UNCHANGED <<enf, sap_call, sap_log>>
    /\ UNCHANGED <<storeVars, clsVars, connVars, lstVars, mainVars>>

GetTrustScore == ClientCall("get_trust_score")
GetReputation == ClientCall("get_reputation")
VerifyPop == ClientCall("verify_pop")
DetectBetrayal == ClientCall("detect_betrayal")
AddTrustEdge == ClientCall("add_trust_edge")
RevokeTrustEdge == ClientCall("revoke_trust_edge")
GetDid == ClientCall("get_did")
RegisterNode == ClientCall("register_node")
GetBetrayalEvidence == ClientCall("get_betrayal_evidence")
IssueSlashSignal == ClientCall("issue_slash_signal")

NextPolicy ==
    \/ New
    \/ WithThresholds
    \/ ShouldAcceptPacket
    \/ CheckForBetrayal
    \/ BatchCheckBetrayal
    \/ GetTrustScore
    \/ GetReputation
    \/ VerifyPop
    \/ DetectBetrayal
    \/ AddTrustEdge
    \/ RevokeTrustEdge
    \/ GetDid
    \/ RegisterNode
    \/ GetBetrayalEvidence
    \/ IssueSlashSignal

SpecPolicy == InitPolicy /\ [][NextPolicy]_vars


(***************************************************************************)
(* The event loop of main with its oracle query: should_accept_packet is   *)
(* called inside the loop that receives, and returns when the oracle       *)
(* answers, which may take any time                                        *)
(***************************************************************************)
\* what the peer of connection k writes: MaxFrames + 1 PacketReceived frames
MainWire(k) == [j \in 1..(MaxFrames + 1) |-> MultiFrame(k, j, 0)]

\* every connection has been accepted and its handler spawned; main is at
\* select!
InitMain ==
    /\ StoreFresh(0)
    /\ ClsIdle
    /\ OthersIdle
    /\ wire = [k \in Conns |-> MainWire(k)]
    /\ stream = [k \in Conns |-> EncodeWire(MainWire(k))]
    /\ ending = [k \in Conns |-> "eof"]
    /\ pos = [k \in Conns |-> 0]
    /\ hpc = [k \in Conns |-> "read_header"]
    /\ hdr = [k \in Conns |-> NoHeader]
    /\ payload = [k \in Conns |-> <<>>]
    /\ pending = [k \in Conns |-> NoEvent]
    /\ hres = [k \in Conns |-> "running"]
    /\ flog = [k \in Conns |-> <<>>]
    /\ queue = <<>>
    /\ rx_closed = FALSE
    /\ delivered = <<>>

\* main, lines 82-85: recv() yields the oldest queued event; for a
\* PacketReceived the loop calls should_accept_packet and stays in that call
MainRecv ==
    /\ main_pc = "recv"
    /\ ~rx_closed
    /\ queue # <<>>
    /\ delivered' = Append(delivered, Head(queue))
    /\ queue' = Tail(queue)
    /\ IF Head(queue).ev.kind = "PacketReceived"
       THEN /\ main_pc' = "query"
            /\ pol_call' = [op |-> "should_accept_packet",
                            arg |-> <<Head(queue).ev.sender_did[1]>>, said |-> <<>>]
       ELSE UNCHANGED <<main_pc, pol_call>>
    /\ UNCHANGED <<pol_ret, ffi_calls>>
    /\ UNCHANGED <<enf, sap_call, sap_log>>
    /\ UNCHANGED <<wire, stream, ending, pos, hpc, hdr, payload, pending, hres, flog, rx_closed>>
    /\ UNCHANGED <<storeVars, clsVars, lstVars>>

\* main, lines 85-104: the oracle answers, the decision is logged and dropped,
\* and the loop returns to select!
MainQueryReturn ==
    /\ main_pc = "query"
    /\ \E raw \in OracleScores :
         /\ should_accept_packet(enf, raw) \in {"Accept", "Deprioritize", "Drop", "Neutral"}
         /\ pol_call' = NoPolCall
         /\ pol_ret' = NoPolRet
         /\ ffi_calls' = 0
    /\ main_pc' = "recv"
    /\ UNCHANGED <<enf, sap_call, sap_log>>
    /\ UNCHANGED <<storeVars, clsVars, connVars, lstVars>>

\* main, lines 115-128: Ctrl+C is seen at select!, the loop ends and the
\* Receiver is dropped with whatever is still queued
MainCtrlC ==
    /\ main_pc = "recv"
    /\ ~rx_closed
    /\ rx_closed' = TRUE
    /\ queue' = <<>>
    /\ main_pc' = "stopped"
    /\ UNCHANGED <<wire, stream, ending, pos, hpc, hdr, payload, pending, hres, flog, delivered>>
    /\ UNCHANGED <<storeVars, clsVars, polVars, lstVars>>

NextMain ==
    \/ \E k \in Conns :
         \/ HcReadHeader(k)
         \/ HcReadPayload(k)
         \/ HcParse(k)
         \/ HcSend(k)
    \/ MainRecv
    \/ MainQueryReturn
    \/ MainCtrlC

SpecMain == InitMain /\ [][NextMain]_vars


(***************************************************************************)
(* EventListener::start up to the bind, for several listeners started on   *)
(* the same socket path.  sock_path is NoFile or the listener whose bind   *)
(* created the file now at the path.                                       *)
(***************************************************************************)
\* nothing has been started; no file is at the path
InitBind ==
    /\ StoreFresh(0)
    /\ ClsIdle
    /\ ConnIdle
    /\ PolIdle
    /\ MainIdle
    /\ LstIdle

\* start, line 76: Path::exists()
StartExists(l) ==
    /\ lst[l] = "new"
    /\ lst' = [lst EXCEPT ![l] = IF sock_path # NoFile THEN "remove" ELSE "bind"]
    /\ UNCHANGED <<sock_path, accept_errs>>
    /\ UNCHANGED <<storeVars, clsVars, connVars, polVars, mainVars>>

\* start, line 77: remove_file(), whatever the file is; an error is ignored
StartRemove(l) ==
    /\ lst[l] = "remove"
    /\ sock_path' = NoFile
    /\ lst' = [lst EXCEPT ![l] = "bind"]
    /\ UNCHANGED accept_errs
    /\ UNCHANGED <<storeVars, clsVars, connVars, polVars, mainVars>>

\* start, lines 87-88: UnixListener::bind creates the file, or fails with
\* BindFailed when a file is at the path
StartBind(l) ==
    /\ lst[l] = "bind"
    /\ IF sock_path = NoFile
       THEN /\ sock_path' = l
            /\ lst' = [lst EXCEPT ![l] = "accepting"]
       ELSE /\ lst' = [lst EXCEPT ![l] = "failed"]
            /\ UNCHANGED sock_path
    /\ UNCHANGED accept_errs
    /\ UNCHANGED <<storeVars, clsVars, connVars, polVars, mainVars>>

\* main, line 123: the listener task is aborted (or its process ends); the
\* listening socket is closed and the file stays at the path
ListenerStop(l) ==
    /\ lst[l] = "accepting"
    /\ lst' = [lst EXCEPT ![l] = "stopped"]
    /\ UNCHANGED <<sock_path, accept_errs>>
    /\ UNCHANGED <<storeVars, clsVars, connVars, polVars, mainVars>>

\* a later run: start is called again
Restart(l) ==
    /\ lst[l] \in {"stopped", "failed"}
    /\ lst' = [lst EXCEPT ![l] = "new"]
    /\ UNCHANGED <<sock_path, accept_errs>>
    /\ UNCHANGED <<storeVars, clsVars, connVars, polVars, mainVars>>

NextBind ==
    \E l \in Listeners :
      \/ StartExists(l)
      \/ StartRemove(l)
      \/ StartBind(l)
      \/ ListenerStop(l)
      \/ Restart(l)

SpecBind == InitBind /\ [][NextBind]_vars


(***************************************************************************)
(* should_accept_packet called by several threads on one shared enforcer   *)
(* (Arc<PolicyEnforcer>); a call is in the oracle until the oracle answers *)
(***************************************************************************)
\* answers of qvl_get_trust_score tried for the concurrent calls
CallScores == {-100, 5, 30, 60, NaN}

\* an enforcer has been built, by new or by with_thresholds, and shared; no
\* call has been made
InitCalls ==
    /\ StoreFresh(0)
    /\ ClsIdle
    /\ ConnIdle
    /\ LstIdle
    /\ MainIdle
    /\ \E ctx \in Handles, d \in ThresholdValues, u \in ThresholdValues :
         enf \in {PolicyEnforcer_new(ctx), with_thresholds(ctx, d, u)}
    /\ pol_call = NoPolCall
    /\ pol_ret = NoPolRet
    /\ ffi_calls = 0
    /\ sap_call = [c \in Callers |-> NoSap]
    /\ sap_log = {}

\* should_accept_packet, line 55: the caller enters get_trust_score
SapCall(c) ==
    /\ sap_call[c].pc = "idle"
    /\ sap_call' = [sap_call EXCEPT ![c] = [pc |-> "query", said |-> <<>>, ret |-> "none"]]
    /\ UNCHANGED <<enf, pol_call, pol_ret, ffi_calls, sap_log>>
    /\ UNCHANGED <<storeVars, clsVars, connVars, lstVars, mainVars>>

\* mutant of SapReturn: the enforcer adapts, a Deprioritize raises its
\* drop_threshold to the untrusted_threshold
SapReturnAdaptive(c) ==
    /\ sap_call[c].pc = "query"
    /\ \E raw \in CallScores :
         LET decision == should_accept_packet(enf, raw) IN
         /\ sap_call' = [sap_call EXCEPT ![c] =
                           [pc |-> "idle", said |-> <<raw>>, ret |-> decision]]
         /\ sap_log' = sap_log \cup {<<raw, decision>>}
         /\ enf' = IF decision = "Deprioritize"
                   THEN [enf EXCEPT !.drop_threshold = enf.untrusted_threshold]
                   ELSE enf
    /\ UNCHANGED <<pol_call, pol_ret, ffi_calls>>
    /\ UNCHANGED <<storeVars, clsVars, connVars, lstVars, mainVars>>

\* should_accept_packet, lines 55-61: the oracle answers and the match on the
\* result and the two thresholds gives the decision
SapReturn(c) ==
    /\ sap_call[c].pc = "query"
    /\ \E raw \in CallScores :
         LET decision == should_accept_packet(enf, raw) IN
         /\ sap_call' = [sap_call EXCEPT ![c] =
                           [pc |-> "idle", said |-> <<raw>>, ret |-> decision]]
         /\ sap_log' = sap_log \cup {<<raw, decision>>}
    /\ UNCHANGED <<enf, pol_call, pol_ret, ffi_calls>>
    /\ UNCHANGED <<storeVars, clsVars, connVars, lstVars, mainVars>>

NextCalls ==
    \E c \in Callers :
      \/ SapCall(c)
      \/ SapReturn(c)

SpecCalls == InitCalls /\ [][NextCalls]_vars


(***************************************************************************)
(* Claims about handle_connection (SpecConn)                               *)
(***************************************************************************)
\* where the i-th frame the peer wrote starts in the stream (bytes before it)
WireOffset(w, i) == Len(EncodeWire(SubSeq(w, 1, i - 1)))

\* the end of the last frame the handler consumed
ConsumedEnd(k) == IF flog[k] = <<>> THEN 0 ELSE flog[k][Len(flog[k])].stop

\* the events of connection k that are about to be sent, queued or delivered
EventItems(k) ==
    {queue[i] : i \in {j \in 1..Len(queue) : queue[j].conn = k}}
    \cup {delivered[i] : i \in {j \in 1..Len(delivered) : delivered[j].conn = k}}
    \cup (IF hpc[k] = "send" THEN {[conn |-> k, frame |-> Len(flog[k]), ev |-> pending[k]]}
          ELSE {})

CountIn(s, k, i) == Cardinality({j \in 1..Len(s) : s[j].conn = k /\ s[j].frame = i})

\* how many events frame i of connection k has produced so far: the one about to
\* be sent, the queued ones and the delivered ones
Produced(k, i) ==
    CountIn(queue, k, i) + CountIn(delivered, k, i)
    + (IF hpc[k] = "send" /\ Len(flog[k]) = i THEN 1 ELSE 0)

\* frame i of connection k has been through the match on its type
Parsed(k, i) == i < Len(flog[k]) \/ (i = Len(flog[k]) /\ hpc[k] # "parse")

\* the example of the wire format: FF x 32, 2A, 00 04 00 00
ExamplePayload == [j \in 1..37 |-> IF j <= 32 THEN 255
                                   ELSE IF j = 33 THEN 42
                                   ELSE IF j = 35 THEN 4 ELSE 0]

\* C11: a frame with magic 0x55AA, type 0x01 and length >= 37 yields exactly one
\* PacketReceived event: sender_id is payload bytes 0..31, packet_type is payload
\* byte 32, payload_size is the little-endian u32 of payload bytes 33..36, and
\* the bytes after the 37th are ignored; the example frame yields
\* sender_id = [0xFF; 32], packet_type = 42, payload_size = 1024.
C11_PacketReceivedDecoded ==
    \A k \in Conns : \A i \in 1..Len(flog[k]) :
        LET pl == wire[k][i].payload IN
        (wire[k][i].magic = IPC_MAGIC /\ wire[k][i].event_type = 1 /\ Len(pl) >= 37)
        => /\ Produced(k, i) <= 1
           /\ (Parsed(k, i) /\ ~rx_closed) => Produced(k, i) = 1
           /\ \A item \in EventItems(k) :
                item.frame = i
                => /\ item.ev = [kind |-> "PacketReceived",
                                 sender_did |-> [j \in 1..32 |-> pl[j]],
                                 packet_type |-> pl[33],
                                 payload_size |-> pl[34] + 256 * pl[35] + 65536 * pl[36]
                                                  + 16777216 * pl[37]]
                   /\ pl = ExamplePayload
                      => item.ev = [kind |-> "PacketReceived",
                                    sender_did |-> [j \in 1..32 |-> 255],
                                    packet_type |-> 42,
                                    payload_size |-> 1024]

\* C11 witness: the consumer received the event of the example frame and then
\* the event of a 40-byte frame, whose last three bytes are ignored
C11_Witness ==
    /\ Len(delivered) = 2
    /\ wire[1][1].payload = ExamplePayload
    /\ Len(wire[1][2].payload) = 40
    /\ delivered[1].ev.payload_size = 1024
    /\ delivered[2].ev = [kind |-> "PacketReceived", sender_did |-> [j \in 1..32 |-> 17],
                          packet_type |-> 7, payload_size |-> 70000]


\* the first frame of connection k written with a magic other than 0x55AA (0: none)
FirstBadMagic(k) ==
    LET bad == {i \in 1..Len(wire[k]) : wire[k][i].magic # IPC_MAGIC}
    IN IF bad = {} THEN 0 ELSE CHOOSE i \in bad : \A j \in bad : i <= j

\* C12: a header whose magic is not 0x55AA, whatever its type and length, is
\* fatal to its connection: the handler ends with a protocol error without
\* reading the payload, and neither that frame nor any byte after it produces an
\* event.
C12_BadMagicFatal ==
    \A k \in Conns :
        LET b == FirstBadMagic(k) IN
        /\ b > 0
           => /\ Len(flog[k]) < b
              /\ pos[k] <= WireOffset(wire[k], b) + 8
              /\ \A item \in EventItems(k) : item.frame < b
              /\ \A i \in b..Len(wire[k]) : Produced(k, i) = 0
              /\ pos[k] = WireOffset(wire[k], b) + 8
                 => /\ hpc[k] = "done"
                    /\ hres[k] = "ProtocolError"
        /\ hres[k] = "ProtocolError"
           => /\ b > 0
              /\ hpc[k] = "done"
              /\ pos[k] = WireOffset(wire[k], b) + 8

\* C12 witness: the first frame has its two magic bytes in the wrong order and is
\* followed by a well-formed frame; the handler returned the protocol error
\* after the eight header bytes, and nothing was produced
C12_Witness ==
    /\ Len(wire[1]) = 2
    /\ wire[1][1].magic = 43605
    /\ Len(wire[1][1].payload) = 32
    /\ wire[1][2].magic = IPC_MAGIC
    /\ wire[1][2].payload = ExamplePayload
    /\ stream[1] = EncodeWire(wire[1])
    /\ hres[1] = "ProtocolError"
    /\ pos[1] = 8
    /\ queue = <<>> /\ delivered = <<>>


\* a frame as the wire format wants it for an event: magic 0x55AA and a payload
\* long enough for its type
WellFormed(f) ==
    /\ f.magic = IPC_MAGIC
    /\ \/ f.event_type = 1 /\ Len(f.payload) >= 37
       \/ f.event_type = 2 /\ Len(f.payload) >= 32

\* the first i frames of connection k have the magic 0x55AA and arrived whole
ArrivedWhole(k, i) ==
    /\ i <= Len(wire[k])
    /\ \A j \in 1..i : wire[k][j].magic = IPC_MAGIC
    /\ WireOffset(wire[k], i + 1) <= Len(stream[k])

\* C13: a type 0x01 frame with valid magic and a payload shorter than 37 bytes
\* (0 included) yields no event and is not an error: its 8 + length bytes are
\* consumed, and the well-formed frame after it on the same connection is still
\* decoded and delivered.
C13_ShortPacketSkipped ==
    \A k \in Conns : \A i \in 1..Len(wire[k]) :
        (ArrivedWhole(k, i) /\ wire[k][i].event_type = 1 /\ Len(wire[k][i].payload) < 37)
        => /\ Produced(k, i) = 0
           /\ i <= Len(flog[k])
              => flog[k][i].stop = flog[k][i].start + 8 + Len(wire[k][i].payload)
           /\ (hpc[k] = "done" /\ Len(flog[k]) = i /\ i = Len(wire[k])
                 /\ stream[k] = EncodeWire(wire[k]) /\ ending[k] = "eof")
              => hres[k] = "Ok"
           /\ (ArrivedWhole(k, i + 1) /\ WellFormed(wire[k][i + 1]))
              => /\ hpc[k] = "done" => Len(flog[k]) # i
                 /\ (Parsed(k, i + 1) /\ ~rx_closed) => Produced(k, i + 1) = 1
                 /\ (hpc[k] = "done" /\ ~rx_closed /\ queue = <<>>)
                    => CountIn(delivered, k, i + 1) = 1

\* C13 witness: a type 0x01 frame of length 0 was consumed as 8 bytes without an
\* event, and the event of the example frame after it was delivered
C13_Witness ==
    /\ Len(wire[1]) = 2
    /\ wire[1][1] = Frame(IPC_MAGIC, 1, 0, <<>>)
    /\ wire[1][2].payload = ExamplePayload
    /\ Len(flog[1]) = 2
    /\ flog[1][1].stop = 8
    /\ Len(delivered) = 1
    /\ delivered[1].frame = 2
    /\ delivered[1].ev.packet_type = 42
    /\ hres[1] = "Ok"


\* C14: a frame with magic 0x55AA and type 0x02 yields exactly one
\* ConnectionEstablished event with peer_id equal to payload bytes 0..31 when its
\* length is at least 32; when its length is below 32 it yields no event and
\* decoding continues with the next frame.
C14_ConnectionEstablishedDecoded ==
    \A k \in Conns : \A i \in 1..Len(flog[k]) :
        LET pl == wire[k][i].payload IN
        (wire[k][i].magic = IPC_MAGIC /\ wire[k][i].event_type = 2)
        => IF Len(pl) >= 32
           THEN /\ Produced(k, i) <= 1
                /\ (Parsed(k, i) /\ ~rx_closed) => Produced(k, i) = 1
                /\ \A item \in EventItems(k) :
                     item.frame = i
                     => item.ev = [kind |-> "ConnectionEstablished",
                                   peer_did |-> [j \in 1..32 |-> pl[j]]]
           ELSE /\ Produced(k, i) = 0
                /\ (hpc[k] = "done" /\ ArrivedWhole(k, i + 1)) => Len(flog[k]) > i
                /\ (hpc[k] = "done" /\ Len(flog[k]) = i /\ i = Len(wire[k])
                      /\ stream[k] = EncodeWire(wire[k]) /\ ending[k] = "eof")
                   => hres[k] = "Ok"

\* C14 witness: a type 0x02 frame of 10 bytes was skipped and the type 0x02
\* frame after it, with the payload 1, 2, ..., 32, was delivered as
\* ConnectionEstablished with that peer_id
C14_Witness ==
    /\ Len(wire[1]) = 2
    /\ wire[1][1].event_type = 2 /\ Len(wire[1][1].payload) = 10
    /\ wire[1][1].magic = IPC_MAGIC
    /\ Len(flog[1]) = 2
    /\ Len(delivered) = 1
    /\ delivered[1] = [conn |-> 1, frame |-> 2,
                       ev |-> [kind |-> "ConnectionEstablished",
                               peer_did |-> [j \in 1..32 |-> j]]]


\* the stream of connection k is n whole frames with magic 0x55AA and nothing
\* else: after them not one byte of a next header arrives
EndsAtBoundary(k, n) ==
    /\ n <= Len(wire[k])
    /\ \A j \in 1..n : wire[k][j].magic = IPC_MAGIC
    /\ Len(stream[k]) = WireOffset(wire[k], n + 1)

\* C15: when the stream ends exactly at a header boundary (an empty stream and a
\* stream ending right after a length-0 frame included), the connection handler
\* terminates cleanly with success, not with an error.
C15_EofAtBoundaryIsClean ==
    \A k \in Conns : \A n \in 0..Len(wire[k]) :
        (EndsAtBoundary(k, n) /\ ending[k] = "eof")
        => /\ hres[k] \in {"running", "Ok"}
           /\ hpc[k] = "done" => hres[k] = "Ok"
           /\ (hpc[k] = "done" /\ ~rx_closed)
              => /\ Len(flog[k]) = n
                 /\ pos[k] = Len(stream[k])

\* C15 witness: the peer wrote one frame of length 0 and closed; the handler
\* consumed it and returned Ok at the end of the stream
C15_Witness ==
    /\ Len(wire[1]) = 1
    /\ wire[1][1].magic = IPC_MAGIC
    /\ wire[1][1].payload = <<>>
    /\ Len(stream[1]) = 8
    /\ ending[1] = "eof"
    /\ Len(flog[1]) = 1
    /\ hpc[1] = "done"
    /\ hres[1] = "Ok"
    /\ ~rx_closed


\* after n whole frames with magic 0x55AA the stream of connection k holds
\* between 1 and 7 bytes of the next header and then ends
EndsInsideHeader(k, n) ==
    /\ n <= Len(wire[k])
    /\ \A j \in 1..n : wire[k][j].magic = IPC_MAGIC
    /\ Len(stream[k]) - WireOffset(wire[k], n + 1) \in 1..7

\* C16: when the stream ends in the middle of a header (between 1 and 7 of its 8
\* bytes were received), the connection handler terminates with an error, not
\* as a clean disconnect.
C16_EofInsideHeaderIsError ==
    \A k \in Conns : \A n \in 0..Len(wire[k]) :
        (EndsInsideHeader(k, n) /\ ending[k] = "eof"
           /\ hpc[k] = "done" /\ Len(flog[k]) = n /\ pos[k] = Len(stream[k]))
        => hres[k] \in {"IoError", "ProtocolError"}


\* after n whole frames the stream of connection k holds the whole header of
\* frame n + 1, which has the magic 0x55AA and announces a payload, and ends
\* before the last byte of that payload
EndsInsidePayload(k, n) ==
    /\ n + 1 <= Len(wire[k])
    /\ \A j \in 1..(n + 1) : wire[k][j].magic = IPC_MAGIC
    /\ Len(wire[k][n + 1].payload) > 0
    /\ WireOffset(wire[k], n + 1) + 8 <= Len(stream[k])
    /\ Len(stream[k]) < WireOffset(wire[k], n + 2)

\* C17: when the stream ends in the middle of a payload (a valid header
\* announced length > 0 bytes but fewer were received), the connection handler
\* terminates with an I/O error and produces no event for the truncated frame.
C17_EofInsidePayloadIsIoError ==
    \A k \in Conns : \A n \in 0..Len(wire[k]) :
        EndsInsidePayload(k, n)
        => /\ Len(flog[k]) <= n
           /\ \A i \in (n + 1)..Len(wire[k]) : Produced(k, i) = 0
           /\ hres[k] \in {"running", "IoError", "Ok"}
           /\ hres[k] = "Ok" => rx_closed
           /\ (hpc[k] = "done" /\ ~rx_closed)
              => /\ hres[k] = "IoError"
                 /\ Len(flog[k]) = n
           /\ (hpc[k] = "done" /\ Len(flog[k]) = n /\ pos[k] = Len(stream[k]))
              => hres[k] = "IoError"

\* C17 witness: the example frame was delivered, the type 0x02 frame after it
\* lost the last byte of its 32-byte payload to a closed stream, and the handler
\* returned the I/O error without a second event
C17_Witness ==
    /\ Len(wire[1]) = 2
    /\ wire[1][1].payload = ExamplePayload
    /\ wire[1][2].event_type = 2
    /\ wire[1][2].magic = IPC_MAGIC
    /\ Len(stream[1]) = Len(EncodeWire(wire[1])) - 1
    /\ ending[1] = "eof"
    /\ hres[1] = "IoError"
    /\ Len(delivered) = 1
    /\ queue = <<>>
    /\ ~rx_closed


\* C20: if the consumer of the queue has been closed when a connection handler
\* tries to push an event, the handler stops reading its stream and terminates
\* with success (no error is returned), and it pushes nothing afterwards.
C20_ClosedConsumerStopsHandler ==
    /\ [][\A k \in Conns :
            /\ (hpc[k] = "send" /\ rx_closed /\ hpc'[k] # "send")
               => /\ hpc'[k] = "done"
                  /\ hres'[k] = "Ok"
                  /\ pos'[k] = pos[k]
                  /\ queue' = queue
            /\ hpc[k] = "done"
               => /\ hpc'[k] = "done"
                  /\ hres'[k] = hres[k]
                  /\ pos'[k] = pos[k]
                  /\ flog'[k] = flog[k]
                  /\ CountIn(queue', k, Len(flog[k])) <= CountIn(queue, k, Len(flog[k]))]_vars
    /\ [](rx_closed => queue = <<>>)
    /\ [](\A k \in Conns :
            (hpc[k] = "done" /\ hres[k] = "Ok" /\ Available(k) >= 8)
            => /\ rx_closed
               /\ Len(flog[k]) > 0
               /\ WellFormed(wire[k][Len(flog[k])])
               /\ pos[k] = flog[k][Len(flog[k])].stop)

\* C20 witness: the consumer was closed while the event of the first frame was
\* about to be pushed; the handler returned Ok with the whole second frame
\* unread, and nothing is queued or delivered
C20_Witness ==
    /\ rx_closed
    /\ Len(wire[1]) = 2
    /\ WellFormed(wire[1][1]) /\ WellFormed(wire[1][2])
    /\ stream[1] = EncodeWire(wire[1])
    /\ hpc[1] = "done"
    /\ hres[1] = "Ok"
    /\ Len(flog[1]) = 1
    /\ pos[1] = WireOffset(wire[1], 2)
    /\ queue = <<>>
    /\ delivered = <<>>


(***************************************************************************)
(* Claims about several handlers and the shared queue                      *)
(***************************************************************************)
\* what went into the queue, oldest first: received or still queued
Sent == delivered \o queue

\* C18: within one connection the events reach the queue, and the consumer, in
\* the order of their frames on the wire, whatever the other connections'
\* handlers and the consumer do in between: if frame A precedes frame B on one
\* connection and both yield events, A's event is received before B's.
C18_PerConnectionOrder ==
    /\ \A a \in 1..Len(Sent) :
         LET k == Sent[a].conn
             i == Sent[a].frame
         IN /\ i \in 1..Len(wire[k])
            /\ WellFormed(wire[k][i])
            /\ Sent[a].ev.sender_did = [j \in 1..32 |-> wire[k][i].payload[j]]
            /\ Sent[a].ev.packet_type = wire[k][i].payload[33]
            /\ hpc[k] = "send" => i < Len(flog[k])
    /\ \A a \in 1..Len(Sent) : \A b \in 1..Len(Sent) :
         (a < b /\ Sent[a].conn = Sent[b].conn) => Sent[a].frame < Sent[b].frame
    /\ \A a \in 1..Len(delivered) : \A b \in 1..Len(delivered) :
         (a < b /\ delivered[a].conn = delivered[b].conn)
         => delivered[a].ev.packet_type < delivered[b].ev.packet_type

\* C18 witness: the consumer received the event of connection 2 between the
\* events of the first and the second frame of connection 1
C18_Witness ==
    /\ Len(delivered) = 3
    /\ delivered[1].conn = 1 /\ delivered[1].frame = 1
    /\ delivered[2].conn = 2 /\ delivered[2].frame = 1
    /\ delivered[3].conn = 1 /\ delivered[3].frame = 2
    /\ delivered[3].ev.packet_type = 2

\* every well-formed frame written on any connection has been received once
AllDelivered ==
    \A k \in Conns : \A i \in 1..Len(wire[k]) :
        WellFormed(wire[k][i]) => CountIn(delivered, k, i) = 1

\* C19: when the bounded queue is full a connection handler suspends on send
\* instead of dropping its event or overwriting a queued one: the queue never
\* holds more than buffer_size events, and, while the consumer keeps receiving
\* and the queue is not closed, every event decoded from a well-formed frame is
\* received by the consumer exactly once.
C19_Backpressure ==
    /\ [](Len(queue) <= BufferSize)
    /\ [](\A k \in Conns : \A i \in 1..Len(flog[k]) :
            WellFormed(wire[k][i])
            => /\ Produced(k, i) <= 1
               /\ Parsed(k, i) => Produced(k, i) = 1)
    /\ [][/\ \/ queue' = queue
              \/ /\ queue # <<>>
                 /\ queue' = Tail(queue)
              \/ /\ Len(queue) < BufferSize
                 /\ Len(queue') > Len(queue)
                 /\ SubSeq(queue', 1, Len(queue)) = queue
                 /\ Len(queue') = Len(queue) + 1
           /\ \A k \in Conns :
                (hpc[k] = "send" /\ Len(queue) >= BufferSize)
                => /\ hpc'[k] = "send"
                   /\ pending'[k] = pending[k]]_vars
    /\ <>[]AllDelivered

\* C19 witness: the queue is full of events nobody has received yet, and the
\* handler of connection 1 is suspended in send with the event of its second frame
C19_Witness ==
    /\ Len(queue) = BufferSize
    /\ delivered = <<>>
    /\ hpc[1] = "send"
    /\ Len(flog[1]) = 2
    /\ pending[1].kind = "PacketReceived"
    /\ ~rx_closed


(***************************************************************************)
(* Claims about the accept loop (SpecAccept)                               *)
(***************************************************************************)
\* what the handler of connection k returns when it reads its own stream to
\* the end: decided by the bytes of that connection alone
OwnResult(k) ==
    LET b == FirstBadMagic(k) IN
    IF b > 0 /\ WireOffset(wire[k], b) + 8 <= Len(stream[k]) THEN "ProtocolError"
    ELSE IF ending[k] = "reset" \/ (\E n \in 0..Len(wire[k]) : EndsInsidePayload(k, n))
    THEN "IoError"
    ELSE "Ok"

\* the frames of connection k that yield an event: decided by the bytes of
\* that connection alone
OwnEvents(k) == {i \in 1..Len(wire[k]) : ArrivedWhole(k, i) /\ WellFormed(wire[k][i])}

\* the handler's part of the state of connection k
HandlerState(k) == <<hpc[k], pos[k], hdr[k], payload[k], pending[k], hres[k], flog[k]>>

\* C21: a protocol error or I/O error on one connection, and a failed accept,
\* are confined to that connection or accept attempt: the accept loop keeps
\* running and accepts later connections, and every other connection's handler
\* decodes and delivers its own events as it would alone.
C21_ErrorsConfined ==
    /\ [](lst[1] = "accepting")
    /\ [](\A k \in Conns :
            /\ hres[k] \in {"running", OwnResult(k)}
            /\ \A i \in 1..Len(wire[k]) :
                 Produced(k, i) = IF i \in OwnEvents(k) /\ Parsed(k, i) THEN 1 ELSE 0
            /\ hpc[k] = "done"
               => \A i \in 1..Len(wire[k]) : ArrivedWhole(k, i) => i <= Len(flog[k]))
    /\ [][/\ \A j \in Conns :
                hres'[j] # hres[j]
                => /\ \A k \in Conns \ {j} : HandlerState(k)' = HandlerState(k)
                   /\ queue' = queue
                   /\ delivered' = delivered
                   /\ rx_closed' = rx_closed
                   /\ lst' = lst
          /\ accept_errs' # accept_errs
             => /\ \A k \in Conns : HandlerState(k)' = HandlerState(k)
                /\ queue' = queue
                /\ delivered' = delivered
                /\ rx_closed' = rx_closed
                /\ lst' = lst]_vars

\* C21 witness: an accept failed, connection 1 ended with the protocol error
\* after its first event, and connection 2, accepted after connection 1, has
\* had both its events received and ended with Ok
C21_Witness ==
    /\ accept_errs = 1
    /\ hres[1] = "ProtocolError"
    /\ hres[2] = "Ok"
    /\ CountIn(delivered, 1, 1) = 1
    /\ CountIn(delivered, 2, 1) = 1
    /\ CountIn(delivered, 2, 2) = 1
    /\ delivered[Len(delivered)].conn = 2
    /\ lst[1] = "accepting"

(***************************************************************************)
(* Claims about the policy enforcer and the oracle client (SpecPolicy)     *)
(***************************************************************************)
\* the last call was should_accept_packet
DecisionMade == pol_call.op = "should_accept_packet" /\ pol_ret.kind = "decision"

\* the trust-score query of the last call failed: the handle is invalid, or the
\* oracle answered with a negative score (no record, or any error it reports)
QueryFailed == enf.ctx = "null" \/ (pol_call.said[1] # NaN /\ pol_call.said[1] < 0)

\* C22: should_accept_packet returns Neutral, and never Accept, Deprioritize or
\* Drop, whenever the trust-score query fails: no record for the identifier
\* (negative score from the oracle), an invalid handle, or any other error
C22_NeutralOnFailure ==
    (DecisionMade /\ QueryFailed) => pol_ret.val = "Neutral"

C22_Witness ==
    /\ DecisionMade
    /\ enf.ctx = "valid"
    /\ pol_call.arg = <<0>>
    /\ pol_call.said = <<-100>>
    /\ ffi_calls = 1
    /\ pol_ret.val = "Neutral"

\* C23: when the query succeeds with score s, should_accept_packet returns Drop
\* if s < drop_threshold, Deprioritize if drop_threshold <= s <
\* untrusted_threshold, Accept if s >= untrusted_threshold, and never Neutral;
\* with the defaults (0.1, 0.5): 0.05 gives Drop, 0.3 Deprioritize, 0.6 Accept
C23_ThresholdDecisions ==
    (DecisionMade /\ ~QueryFailed) =>
       LET s == pol_call.said[1]
           d == enf.drop_threshold
           u == enf.untrusted_threshold
       IN /\ FLt(s, d) => pol_ret.val = "Drop"
          /\ (FGe(s, d) /\ FLt(s, u)) => pol_ret.val = "Deprioritize"
          /\ FGe(s, u) => pol_ret.val = "Accept"
          /\ pol_ret.val # "Neutral"
          /\ (d = 10 /\ u = 50 /\ s = 5) => pol_ret.val = "Drop"
          /\ (d = 10 /\ u = 50 /\ s = 30) => pol_ret.val = "Deprioritize"
          /\ (d = 10 /\ u = 50 /\ s = 60) => pol_ret.val = "Accept"

\* C24: every PolicyEnforcer, built by new or by with_thresholds with any
\* arguments, holds drop_threshold < untrusted_threshold, so that each of Drop,
\* Deprioritize and Accept is returned for some successful score
C24_ThresholdsOrdered ==
    /\ FLt(enf.drop_threshold, enf.untrusted_threshold)
    /\ \A decision \in {"Drop", "Deprioritize", "Accept"} :
         \E s \in OracleScores :
           should_accept_packet([enf EXCEPT !.ctx = "valid"], s) = decision

\* the oracle's answer to the i-th detect_betrayal of the last call is a finding
IsFinding(i) ==
    enf.ctx = "valid" /\ pol_call.said[i] # NaN /\ pol_call.said[i] > 70

\* the places of the last call's input that have a finding, and the j-th of them
FindingPlaces == {i \in 1..Len(pol_call.arg) : IsFinding(i)}
NthFinding(j) == CHOOSE i \in FindingPlaces : Cardinality({h \in FindingPlaces : h < i}) = j - 1

\* C25: check_for_betrayal(node) returns the oracle's anomaly score if and only
\* if that score is strictly greater than 0.7 (exactly 0.7, any lower score, NaN
\* and a failed query give no finding); batch_check_betrayal(nodes) returns
\* exactly the (node, score) pairs of the places that have a finding, in the
\* order of the input list, one entry per input occurrence
C25_BetrayalFindings ==
    /\ pol_call.op = "check_for_betrayal" =>
         IF IsFinding(1)
         THEN pol_ret.val.tag = "Some" /\ pol_ret.val.val = pol_call.said
         ELSE pol_ret.val.tag = "None"
    /\ pol_call.op = "batch_check_betrayal" =>
         /\ Len(pol_ret.val) = Cardinality(FindingPlaces)
         /\ \A j \in 1..Len(pol_ret.val) :
              pol_ret.val[j] = <<pol_call.arg[NthFinding(j)], pol_call.said[NthFinding(j)]>>

C25_Witness ==
    /\ pol_call.op = "batch_check_betrayal"
    /\ enf.ctx = "valid"
    /\ pol_call.arg = <<1, 0>>
    /\ pol_call.said = <<71, 71>>
    /\ pol_ret.val = << <<1, 71>>, <<0, 71>> >>

\* the failures operation op reports on a valid handle
OrdinaryFailures(op) ==
    {Returned(ClientResult(op, "valid", a)) : a \in Answers(op)}
    \cap {r \in {Returned(ClientResult(op, "valid", a)) : a \in Answers(op)} :
            r.tag \in {"Err", "None"}}

SendBlocked(k) == hpc[k] = "send" /\ ~rx_closed /\ Len(queue) >= BufferSize

\* C26: a blocking oracle query of arbitrary duration is isolated from event
\* ingestion: while the query is in progress the handlers still decode frames
\* and deliver events, so a slow oracle never stops every connection's progress
C26_OracleIsolated ==
    (main_pc = "query" /\ \E k \in Conns : hres[k] = "running")
    => \E k \in Conns : hres[k] = "running" /\ ~SendBlocked(k)

(***************************************************************************)
(* Claims about binding the socket path (SpecBind)                         *)
(***************************************************************************)
\* the listeners that are bound and in their accept loop
Accepting == {l \in Listeners : lst[l] = "accepting"}

\* C27: at most one listener is bound to and accepting on the socket path at
\* any time; a second listener started while a first one is still bound does
\* not also end up bound and accepting
C27_SingleListener == Cardinality(Accepting) <= 1

(***************************************************************************)
(* Claims about stored alerts and returned results (SpecStore)             *)
(***************************************************************************)
\* v without its i-th element
Without(v, i) == SubSeq(v, 1, i - 1) \o SubSeq(v, i + 1, Len(v))

\* C29: a stored alert is never modified: from its append until it is evicted
\* or cleared its node, score, reason, timestamp and priority are unchanged by
\* any operation, and its priority always equals the classification of its own
\* score; emit, eviction and clear only add or remove whole alerts
C29_StoredAlertsFrozen ==
    /\ [](\A i \in 1..Len(alerts) :
            LET s == alerts[i].score
                p == alerts[i].priority
            IN /\ (p = Critical) <=> (s # NaN /\ s >= 90)
               /\ (p = Warning) <=> (s # NaN /\ 70 <= s /\ s < 90)
               /\ (p = Info) <=> (s = NaN \/ s < 70))
    /\ [][\/ alerts' = alerts
          \/ \E i \in 1..Len(alerts) : alerts' = Without(alerts, i)
          \/ /\ Len(alerts') = Len(alerts) + 1
             /\ SubSeq(alerts', 1, Len(alerts)) = alerts
          \/ alerts' = <<>>]_vars

\* C29 witness: an alert stored by the second emit is still there, as it was
\* built, after the first alert was evicted and a third one pushed
C29_Witness ==
    /\ max_alerts = 2
    /\ SumReturned(Callers) = 3
    /\ Len(alerts) = 2
    /\ Len(lin) = 3
    /\ alerts[1].node = lin[2]
    /\ alerts[1].score = 75
    /\ alerts[1].priority = Warning
    /\ alerts[1].reason = "LowCoverage"
    /\ alerts[1].timestamp < alerts[2].timestamp

\* the read operations of the store
ReadOps == {call.op : call \in ReadCalls}

\* C30: get_critical_alerts, get_alerts_above, count_by_priority and total_count
\* leave the store's content and order unchanged, and what they returned is a
\* snapshot: a later emit, eviction or clear does not change a returned result
C30_ReadsAreSnapshots ==
    [][/\ \A c \in Callers :
            (pc'[c] # pc[c] /\ (pc[c] = "read_body" \/ pc'[c] = "read_body"))
            => /\ alerts' = alerts
               /\ max_alerts' = max_alerts
       /\ \A c \in Callers :
            (ret[c].op \in ReadOps /\ ret'[c] # ret[c])
            => /\ pc[c] = "idle"
               /\ pc'[c] # "idle"
               /\ alerts' = alerts]_vars

\* C30 witness: a caller holds the alert that get_alerts_above returned, and the
\* store has been cleared since
C30_Witness ==
    \E c \in Callers :
        /\ ret[c].op = "get_alerts_above"
        /\ Len(ret[c].val) = 1
        /\ ret[c].val = ret[c].snap
        /\ cleared
        /\ alerts = <<>>
        /\ \A d \in Callers : pc[d] = "idle"

\* C32: emit on a store created with capacity 0 completes without failing and
\* leaves the store usable: the call returns, total_count() is still at most 0,
\* and later emit, query, count and clear calls also complete without failing
C32_ZeroCapacityEmitCompletes ==
    max_alerts = 0
    => /\ ~poisoned
       /\ \A c \in Callers : pc[c] # "panicked"
       /\ total_count(alerts) <= 0

\* C33: the stored alerts' timestamps are non-decreasing in store order, also
\* when several callers emit concurrently, given a monotone clock
C33_TimestampsInStoreOrder ==
    \A i, j \in 1..Len(alerts) :
        i < j => alerts[i].timestamp <= alerts[j].timestamp

(***************************************************************************)
(* Claims about concurrent should_accept_packet calls (SpecCalls)          *)
(***************************************************************************)
\* C31: should_accept_packet has no side effects: it changes neither the
\* enforcer's two thresholds nor any other state of the core, so concurrent or
\* repeated calls with the same oracle answer return the same decision,
\* independent of the calls made before or in parallel
C31_NoSideEffects ==
    /\ [][(\E c \in Callers : sap_call'[c] # sap_call[c])
          => /\ enf' = enf
             /\ UNCHANGED <<pol_call, pol_ret, ffi_calls>>
             /\ UNCHANGED <<storeVars, clsVars, connVars, lstVars, mainVars>>]_vars
    /\ [](\A p, q \in sap_log : p[1] = q[1] => p[2] = q[2])
    /\ [](\A c \in Callers :
            sap_call[c].ret # "none" => <<sap_call[c].said[1], sap_call[c].ret>> \in sap_log)

\* C31 witness: both callers got Deprioritize for the answer 0.3, one of them
\* while other calls with other answers were made before and in between
C31_Witness ==
    /\ \A c \in Callers : sap_call[c].said = <<30>> /\ sap_call[c].ret = "Deprioritize"
    /\ {<<5, "Drop">>, <<60, "Accept">>, <<-100, "Neutral">>} \subseteq sap_log
    /\ enf = PolicyEnforcer_new("valid")

====
